---- MODULE Spec2Model ----
(***************************************************************************)
(* Model of pyproffit/deproject.py: the basis-function operators, the      *)
(* geometric volume matrix, the prior means handed to the sampler and the  *)
(* Deproject state container with its derived-quantity methods.            *)
(*                                                                         *)
(* Number representation.  The program computes with float64 arrays.  The  *)
(* model computes with integers in fixed point: every real quantity is an  *)
(* integer number of a stated unit, and numpy's nan is the value NaN,      *)
(* which every arithmetic operator propagates and every comparison treats  *)
(* as "false", as IEEE-754 does.  Sequences are 1-based, so the element    *)
(* numpy calls a[i] is a[i+1] here.                                        *)
(***************************************************************************)
EXTENDS Integers, Sequences, FiniteSets, TLC

(***************************************************************************)
(* Bounds of the model.                                                    *)
(***************************************************************************)
\* largest shell radius handed to MyDeprojVol, in units of Unit
MaxRad == 3
\* largest number of shells handed to MyDeprojVol
MaxShells == 3
\* number of bins of the smallest and of the largest radial profile
MinBins == 5
MaxBins == 5
\* largest explicit number of core radii asked of list_params
MaxNrc == 2
\* number of posterior samples the sampler returns (nmcmc)
NSamples == 3
\* number of method calls made on one Deproject object
MaxCalls == 2

(***************************************************************************)
(* float64 helpers.                                                        *)
(***************************************************************************)
\* numpy's nan: a value outside the range of every finite quantity of the model
NaN == -(2^30)

IsNaN(v) == v = NaN

\* x - y on float64: nan if either operand is nan
FSub(x, y) == IF IsNaN(x) \/ IsNaN(y) THEN NaN ELSE x - y

\* x < y on float64: False when either operand is nan
FLt(x, y) == ~IsNaN(x) /\ ~IsNaN(y) /\ x < y

Abs(x) == IF x < 0 THEN -x ELSE x

Min(x, y) == IF x < y THEN x ELSE y

Max(x, y) == IF x < y THEN y ELSE x

RECURSIVE ISqrtBetween(_, _, _)
\* the largest s in lo..hi with s*s <= x (lo*lo <= x is given)
ISqrtBetween(x, lo, hi) ==
    IF lo >= hi THEN lo
    ELSE LET mid == (lo + hi + 1) \div 2
         IN  IF mid * mid <= x THEN ISqrtBetween(x, mid, hi)
             ELSE ISqrtBetween(x, lo, mid - 1)

\* floor(sqrt(x)) for 0 <= x < 2^31
ISqrt(x) == ISqrtBetween(x, 0, Min(x, 46340))

(***************************************************************************)
(* MyDeprojVol: the geometric volume matrix.                               *)
(*                                                                         *)
(* Radii are integers, Unit of them making one radius unit.  A volume is   *)
(* an integer number of VolUnit = volconst * 1000 (radius/Unit*Unit)^3:    *)
(* the positive factor volconst = 4/3 pi is left out of every entry, which *)
(* changes neither the sign of an entry nor whether it is nan.             *)
(***************************************************************************)
\* resolution of a radius: this many integer steps per radius unit
Unit == 1000

\* x ** 1.5 for a float64 x, in units of 1000: nan for x < 0 (numpy's power
\* of a negative base to a fractional exponent), else x*sqrt(x)/1000 with
\* sqrt(x) = s0 + frac/1000 and x = 1000 q + r, rounded down term by term
Pow15(x) ==
    IF IsNaN(x) \/ x < 0 THEN NaN
    ELSE LET s0   == ISqrt(x)
             frac == ((x - s0 * s0) * 1000) \div (2 * s0 + 1)
             q    == x \div 1000
             r    == x % 1000
         IN  q * s0 + (r * s0) \div 1000 + (q * frac) \div 1000

\* (1.-(c/R)**2.)**1.5 * R**3 for R > 0, which is (R^2 - c^2)**1.5:
\* nan when c > R, as the base 1-(c/R)^2 is then negative
CapTerm(c, R) == IF R * R < c * c THEN NaN ELSE Pow15(R * R - c * c)

\* the pre-pass of deproj_vol: ro[i-1] = ri[i] for every i >= 1, whatever
\* the mismatch is; the last outer radius is kept
FixedOuter(ri, ro) ==
    [i \in 1..Len(ro) |-> IF i < Len(ri) THEN ri[i + 1] ELSE ro[i]]

RECURSIVE DifTot(_, _, _)
\* diftot after the first loop, in thousandths of a percent: the sum over
\* i >= 1 of abs(ri[i]-ro[i-1])/ro[i-1]*100, ro[i-1] being the radius as given
DifTot(ri, ro, i) ==
    IF i > Len(ri) THEN 0
    ELSE (Abs(ri[i] - ro[i - 1]) * 100000) \div ro[i - 1] + DifTot(ri, ro, i + 1)

\* abs(diftot) > 0.1: the warning is printed
DeprojVolWarns(ri, ro) == DifTot(ri, ro, 2) > 100

\* volmat[iring,iring]
DiagVolume(ri, ro, iring) == CapTerm(ri[iring], ro[iring])

\* volmat[ishell,iring] for ishell > iring: f1*ro[ishell]**3 - f2*ri[ishell]**3
ShellVolume(ri, ro, ishell, iring) ==
    LET f1ro3 == FSub(CapTerm(ri[iring], ro[ishell]), CapTerm(ro[iring], ro[ishell]))
        f2ri3 == FSub(CapTerm(ri[iring], ri[ishell]), CapTerm(ro[iring], ri[ishell]))
    IN  FSub(f1ro3, f2ri3)

RECURSIVE ShellLoop(_, _, _, _, _)
\* the inner loop, ishell from nbin-1 down to iring+1: the matrix with the
\* entries of column iring set, or the exit() of the first negative entry
ShellLoop(ri, ro, volmat, iring, ishell) ==
    IF ishell <= iring THEN [exited |-> FALSE, volmat |-> volmat]
    ELSE LET v == ShellVolume(ri, ro, ishell, iring)
         IN  IF FLt(v, 0) THEN [exited |-> TRUE, volmat |-> volmat]
             ELSE ShellLoop(ri, ro, [volmat EXCEPT ![<<ishell, iring>>] = v],
                            iring, ishell - 1)

RECURSIVE RingLoop(_, _, _, _)
\* the outer loop, iring from nbin-1 down to 0
RingLoop(ri, ro, volmat, iring) ==
    IF iring < 1 THEN [exited |-> FALSE, volmat |-> volmat]
    ELSE LET withDiag == [volmat EXCEPT ![<<iring, iring>>] = DiagVolume(ri, ro, iring)]
             col      == ShellLoop(ri, ro, withDiag, iring, Len(ro))
         IN  IF col.exited THEN col
             ELSE RingLoop(ri, ro, col.volmat, iring - 1)

\* np.zeros((nr, nc))
Zeros(nr, nc) == [ij \in (1..nr) \X (1..nc) |-> 0]

\* MyDeprojVol.deproj_vol on the object's radin, radot: what the call does
\* (it returns the matrix, or exit() raises SystemExit, which ends the
\* interpreter unless a caller traps it) and whether the warning is printed
deproj_vol(radin, radot) ==
    LET ri    == radin
        ro    == FixedOuter(radin, radot)
        nbin  == Len(ro)
        loops == RingLoop(ri, ro, Zeros(nbin, nbin), nbin)
    IN  IF loops.exited
        THEN [kind |-> "SystemExit", warned |-> DeprojVolWarns(radin, radot)]
        ELSE [kind |-> "return", warned |-> DeprojVolWarns(radin, radot),
              shape |-> <<nbin, nbin>>, volume2 |-> loops.volmat]


(***************************************************************************)
(* 1-D arrays are sequences; a 2-D array is a record of its shape and of   *)
(* its entries v[<<row, column>>], so that an array with no rows still     *)
(* has a column count, as a numpy array does.                              *)
(***************************************************************************)
\* the function f with every value computed, once: TLC would otherwise
\* compute f[x] anew at each use
Array(f) == f @@ <<>>

\* the 2-D array of shape (nr, nc) whose entry (i, j) is f(i, j)
Matrix(nr, nc, f(_, _)) ==
    [shape |-> <<nr, nc>>,
     v |-> Array([ij \in (1..nr) \X (1..nc) |-> f(ij[1], ij[2])])]

\* the 1-D array of shape (n,) whose entry i is f(i), kept at v[<<i>>]
Vector(n, f(_)) ==
    [shape |-> <<n>>, v |-> Array([i \in { <<k>> : k \in 1..n } |-> f(i[1])])]

\* the 0-D array that holds the scalar x
Scalar(x) == [shape |-> <<>>, v |-> (<<>> :> x)]

\* np.eye(n), an entry 1.0 being PsfOne
PsfOne == 10

Eye(n) == Matrix(n, n, LAMBDA i, j : IF i = j THEN PsfOne ELSE 0)

\* np.transpose(m)
Transpose(m) == Matrix(m.shape[2], m.shape[1], LAMBDA i, j : m.v[<<j, i>>])

RECURSIVE SumTo(_, _)
\* f(1) + ... + f(n)
SumTo(f(_), n) == IF n < 1 THEN 0 ELSE f(n) + SumTo(f, n - 1)

RECURSIVE WhereFrom(_, _, _)
\* the indices i >= from with test(a[i]), in increasing order
WhereFrom(a, test(_), from) ==
    IF from > Len(a) THEN <<>>
    ELSE IF test(a[from]) THEN <<from>> \o WhereFrom(a, test, from + 1)
    ELSE WhereFrom(a, test, from + 1)

\* np.where(rad < bkglim)
WhereLess(rad, bkglim) == WhereFrom(rad, LAMBDA r : r < bkglim, 1)

\* np.where(rad > bkglim)
WhereGreater(rad, bkglim) == WhereFrom(rad, LAMBDA r : r > bkglim, 1)

\* a[idx] for an index array idx
Take(a, idx) == [k \in 1..Len(idx) |-> a[idx[k]]]

(***************************************************************************)
(* The basis functions (1 + (r/rc)^2)^(-3 beta + k).                       *)
(*                                                                         *)
(* A slope beta is an integer number of hundredths; a radius or a core     *)
(* radius an integer number of 1/Unit arcmin (or kpc); the value of a      *)
(* basis function an integer number of 1/Scale.  The power with a          *)
(* fractional exponent is interpolated linearly between the two integer    *)
(* powers around it; a value is never rounded down to 0, since the float64 *)
(* power of a positive base is positive.                                   *)
(***************************************************************************)
\* resolution of a basis-function value
Scale == 1000

RECURSIVE PowFix(_, _)
\* Scale * (q/1000)^n for 0 < q <= 1000
PowFix(q, n) == IF n = 0 THEN Scale ELSE (PowFix(q, n - 1) * q) \div 1000

\* np.power(1.+np.power(r/rc,2), -e100/100) for rc >= 10 and e100 >= 0, the
\* ratio 1/(1+(r/rc)^2) being taken in thousandths
BetaModel(r, rc, e100) ==
    LET r10  == r \div 10
        rc10 == rc \div 10
        q    == (rc10 * rc10 * 1000) \div (rc10 * rc10 + r10 * r10)
        n    == e100 \div 100
        f    == e100 % 100
        pn   == PowFix(q, n)
    IN  Max(1, (pn * (100 - f) + ((pn * q) \div 1000) * f) \div 100)

(***************************************************************************)
(* Python values: None and exceptions.  An optional value is None or       *)
(* Some(x); a call either returns a value or raises.                       *)
(***************************************************************************)
None == <<>>

Some(x) == <<x>>

IsNone(o) == o = None

Val(o) == o[1]

\* the call returned value
Return(value) == [kind |-> "return", value |-> value]

\* the call raised the exception exc, which nothing in this file catches
Raise(exc) == [kind |-> "raise", exc |-> exc]

Raised(res) == res.kind = "raise"

(***************************************************************************)
(* The parameter grid: list_params and list_params_density.                *)
(***************************************************************************)
\* nsh, the number of source points per core radius
nsh == 4

\* np.linspace(0.6, 3., nbetas) in hundredths
LinSpaceBetas(nbetas) ==
    [k \in 1..nbetas |->
        IF nbetas = 1 THEN 60 ELSE 60 + (240 * (k - 1)) \div (nbetas - 1)]

RECURSIVE IPow(_, _)
\* x^n
IPow(x, n) == IF n = 0 THEN 1 ELSE x * IPow(x, n - 1)

RECURSIVE IRootBetween(_, _, _, _)
\* the largest s in lo..hi with s^m <= x
IRootBetween(x, m, lo, hi) ==
    IF lo >= hi THEN lo
    ELSE LET mid == (lo + hi + 1) \div 2
         IN  IF IPow(mid, m) <= x THEN IRootBetween(x, m, mid, hi)
             ELSE IRootBetween(x, m, lo, mid - 1)

\* lo * (hi/lo)^(k/m) for 0 < k < m: the m-th root of lo^(m-k) * hi^k,
\* taken on the radii in units of 100 steps
GeoPoint(lo, hi, k, m) ==
    LET l == lo \div 100
        h == hi \div 100
    IN  100 * IRootBetween(IPow(l, m - k) * IPow(h, k), m, 0, Max(l, h))

\* np.logspace(np.log10(lo), np.log10(hi), n) for lo, hi > 0
LogSpace(lo, hi, n) ==
    [k \in 1..n |-> IF k = 1 THEN lo
                     ELSE IF k = n THEN hi
                     ELSE GeoPoint(lo, hi, k - 1, n - 1)]

\* cosmo.kpc_proper_per_arcmin(z).value: the distance calculator is outside
\* this file; redshift number z stands for a redshift at which one arcmin
\* is z + 1 kpc
kpc_proper_per_arcmin(z) == z + 1

\* a grid in which the core radius would vary fastest and the slope slowest:
\* rc = np.tile(allrc, nbetas) and betas = allbetas.repeat(nrc)
ParamGrid_CoreFastest(rad, sourcereg, nrcArg, nbetasArg, kpcp) ==
    LET rfit     == Take(rad, sourcereg)
        npfit    == Len(rfit)
        nrc0     == IF IsNone(nrcArg) THEN npfit \div nsh ELSE Val(nrcArg)
    IN  IF npfit < 3 THEN Raise("IndexError")
        ELSE LET allrc    == [k \in 1..nrc0 |->
                                 LogSpace(rfit[3], rfit[npfit] \div 2, nrc0)[k] * kpcp]
                 allbetas == LinSpaceBetas(nbetasArg)
                 nrc      == Len(allrc)
                 nbetas   == Len(allbetas)
             IN  Return(Array([k \in 1..(nrc * nbetas) |->
                                 [beta |-> allbetas[((k - 1) \div nrc) + 1],
                                  rc   |-> allrc[((k - 1) % nrc) + 1]]]))

\* the body shared by list_params (kpcp = 1) and list_params_density: rows
\* (beta, rc), rc = allrc.repeat(nbetas) and betas = np.tile(allbetas, nrc);
\* rfit[2] raises IndexError when the source region has fewer than 3 points
ParamGrid(rad, sourcereg, nrcArg, nbetasArg, kpcp) ==
    LET rfit     == Take(rad, sourcereg)
        npfit    == Len(rfit)
        nrc0     == IF IsNone(nrcArg) THEN npfit \div nsh ELSE Val(nrcArg)
    IN  IF npfit < 3 THEN Raise("IndexError")
        ELSE LET allrc    == [k \in 1..nrc0 |->
                                 LogSpace(rfit[3], rfit[npfit] \div 2, nrc0)[k] * kpcp]
                 allbetas == LinSpaceBetas(nbetasArg)
                 nrc      == Len(allrc)
                 nbetas   == Len(allbetas)
             IN  Return(Array([k \in 1..(nrc * nbetas) |->
                                 [beta |-> allbetas[((k - 1) % nbetas) + 1],
                                  rc   |-> allrc[((k - 1) \div nbetas) + 1]]]))

\* list_params(rad, sourcereg, nrc, nbetas)
list_params(rad, sourcereg, nrc, nbetas) ==
    ParamGrid(rad, sourcereg, nrc, nbetas, 1)

\* list_params_density(rad, sourcereg, z, nrc, nbetas)
list_params_density(rad, sourcereg, z, nrc, nbetas) ==
    ParamGrid(rad, sourcereg, nrc, nbetas, kpc_proper_per_arcmin(z))

\* the default of the nbetas parameter
DefaultNBetas == 6

(***************************************************************************)
(* The linear operators.  pars is the grid, a sequence of rows (beta, rc); *)
(* area and expo are per-bin integers, psf a matrix whose entry 1.0 is     *)
(* PsfOne.  The entries of the counts operators are in units of            *)
(* 1/(Scale*PsfOne), those of the surface-brightness operator in units of  *)
(* 1/Scale.                                                                *)
(***************************************************************************)
\* Kconv = np.dot(spsf, Ktrue.T) with Ktrue = func_base*areamul*expomul, the
\* exponent being -3 beta + 0.5; area[0:npt], expo[0:npt] and psf[0:npt,0:npt]
\* are the leading npt entries, whatever sourcereg selects
ConvolvedCounts(rfit, pars, area, expo, psf, i, p) ==
    SumTo(LAMBDA j :
            psf.v[<<i, j>>]
            * (BetaModel(rfit[j], pars[p].rc, 3 * pars[p].beta - 50) * area[j] * expo[j]),
          Len(rfit))

\* calc_linear_operator(rad, sourcereg, pars, area, expo, psf)
calc_linear_operator(rad, sourcereg, pars, area, expo, psf) ==
    LET rfit  == Take(rad, sourcereg)
        npt   == Len(rfit)
        npars == Len(pars)
        nptot == Len(rad)
    IN  Matrix(nptot, npars + 1,
               LAMBDA i, p :
                 IF p = npars + 1 THEN area[i] * expo[i] * Scale * PsfOne
                 ELSE IF i <= npt
                      THEN ConvolvedCounts(rfit, pars, area, expo, psf, i, p)
                      ELSE 0)

\* calc_sb_operator(rad, sourcereg, pars)
calc_sb_operator(rad, sourcereg, pars) ==
    LET rfit  == Take(rad, sourcereg)
        npt   == Len(rfit)
        npars == Len(pars)
        nptot == Len(rad)
    IN  Matrix(nptot, npars + 1,
               LAMBDA i, p :
                 IF p = npars + 1 THEN 0
                 ELSE IF i <= npt
                      THEN BetaModel(rfit[i], pars[p].rc, 3 * pars[p].beta - 50)
                      ELSE 0)

\* calc_sb_operator_psf(rad, sourcereg, pars, area, expo, psf): line for line
\* the body of calc_linear_operator
calc_sb_operator_psf(rad, sourcereg, pars, area, expo, psf) ==
    LET rfit  == Take(rad, sourcereg)
        npt   == Len(rfit)
        npars == Len(pars)
        nptot == Len(rad)
    IN  Matrix(nptot, npars + 1,
               LAMBDA i, p :
                 IF p = npars + 1 THEN area[i] * expo[i] * Scale * PsfOne
                 ELSE IF i <= npt
                      THEN ConvolvedCounts(rfit, pars, area, expo, psf, i, p)
                      ELSE 0)

\* 2 pi (1+(r/rc)^2)^(-3 beta+1.5) / (3 - 6 beta) * rc^2 in units of
\* 2 pi (Unit/100)^2 / Scale: negative, as beta > 0.5
IntegralBasis(r, par) ==
    -(((BetaModel(r, par.rc, 3 * par.beta - 150) * (par.rc \div 100) * (par.rc \div 100))
        * 100) \div (6 * par.beta - 300))

\* calc_int_operator(a, b, pars)
calc_int_operator(a, b, pars) ==
    LET npars == Len(pars)
        rads  == <<a, b>>
        npt   == 2
    IN  Matrix(npt, npars + 1,
               LAMBDA i, p :
                 IF p = npars + 1 THEN 0 ELSE IntegralBasis(rads[i], pars[p]))

\* func_base*cfact with the exponent -3 beta and cfact =
\* gamma(3 beta)/gamma(3 beta-0.5)/sqrt(pi)/rc, the ratio of the two gamma
\* values being taken as sqrt(3 beta - 0.75), its asymptotic form, and the
\* entry being in units of 1/(10 sqrt(pi) Scale) per radius unit
DensityBasis(r, par) ==
    (BetaModel(r, par.rc, 3 * par.beta) * ISqrt(3 * par.beta - 75) * Unit) \div par.rc

\* calc_density_operator with the background column forgotten: Ktot is
\* np.zeros((nptot, npars))
calc_density_operator_NoBkgColumn(rad, sourcereg, pars, z) ==
    LET kpcp  == kpc_proper_per_arcmin(z)
        rfit  == [i \in 1..Len(rad) |-> rad[i] * kpcp]
    IN  Matrix(Len(rfit), Len(pars), LAMBDA i, p : DensityBasis(rfit[i], pars[p]))

\* calc_density_operator(rad, sourcereg, pars, z): rfit is the whole of
\* rad*kpcp and sourcereg is not read
calc_density_operator(rad, sourcereg, pars, z) ==
    LET kpcp  == kpc_proper_per_arcmin(z)
        rfit  == [i \in 1..Len(rad) |-> rad[i] * kpcp]
        npt   == Len(rfit)
        npars == Len(pars)
        nptot == Len(rfit)
    IN  Matrix(nptot, npars + 1,
               LAMBDA i, p :
                 IF p = npars + 1 THEN 0
                 ELSE IF i <= npt THEN DensityBasis(rfit[i], pars[p])
                      ELSE 0)

(***************************************************************************)
(* The radial profile, an object of pyproffit's profile module that this   *)
(* file only reads: bin centres at 0.5, 1.5, 2.5, ... arcmin with          *)
(* half-width 0.5, a background-subtracted brightness that falls with      *)
(* radius and scatters below zero in the outermost bin, and either no PSF  *)
(* matrix or one that leaves 8/10 of a bin's flux in the bin.              *)
(***************************************************************************)
\* the PSF matrix of an n-bin profile
BlurPsf(n) ==
    Matrix(n, n, LAMBDA i, j :
                   IF i = j THEN (IF i = 1 \/ i = n THEN 9 ELSE 8)
                   ELSE IF i - j = 1 \/ j - i = 1 THEN 1 ELSE 0)

MakeProfile(n, withPsf) ==
    [nbin      |-> n,
     bins      |-> [i \in 1..n |-> (2 * i - 1) * (Unit \div 2)],
     ebins     |-> [i \in 1..n |-> Unit \div 2],
     profile   |-> [i \in 1..n |-> IF i = n THEN -1 ELSE 10 * (n - i)],
     eprof     |-> [i \in 1..n |-> 2],
     counts    |-> [i \in 1..n |-> 20 * (n + 1 - i)],
     area      |-> [i \in 1..n |-> 2 * i - 1],
     effexp    |-> [i \in 1..n |-> 2],
     bkgprof   |-> [i \in 1..n |-> 1],
     bkgcounts |-> [i \in 1..n |-> 2 * (2 * i - 1)],
     psfmat    |-> IF withPsf THEN Some(BlurPsf(n)) ELSE None]

Profiles == { MakeProfile(n, withPsf) : n \in MinBins..MaxBins, withPsf \in BOOLEAN }

\* psfmat transposed, or np.eye(prof.nbin) when the profile has none
PsfOf(prof) ==
    IF IsNone(prof.psfmat) THEN Eye(prof.nbin) ELSE Transpose(Val(prof.psfmat))

\* the values of bkglim a caller passes: between two bins, so that the
\* source region has 3 bins or more
BkgLims(prof) == { k * Unit : k \in 3..prof.nbin }

\* the (nrc, nbetas) a caller passes: the defaults, or explicit counts
GridArgs ==
    {<<None, DefaultNBetas>>} \cup
    { <<Some(nrc), nbetas>> : nrc \in 1..MaxNrc, nbetas \in {2, 3} }

(***************************************************************************)
(* Posterior samples and the statistics taken over them.                   *)
(*                                                                         *)
(* A sample is a log-amplitude, an integer; np.exp of it is an amplitude   *)
(* in tenths.  The sample array is a record of its shape, (nSamples,       *)
(* nColumns) or (n,) once np.loadtxt has squeezed it, and its entries.     *)
(***************************************************************************)
\* np.exp(x) in tenths for an integer log-amplitude x: e = 2.7
ExpTenths(x) ==
    IF x >= 0 THEN (10 * IPow(27, x)) \div IPow(10, x)
    ELSE (10 * IPow(10, -x)) \div IPow(27, -x)

\* the sample matrix of shape (NSamples, ncols) that the sampler returns on
\* seed: the sampler is outside this file, and its draws are log-amplitudes
\* in -1..1 that differ from row to row and from seed to seed
SamplerDraw(seed, ncols) ==
    Matrix(NSamples, ncols, LAMBDA i, j : ((seed + i * i + j) % 3) - 1)

\* np.savetxt(samplefile, samples) followed by np.loadtxt(samplefile): the
\* text holds every float64 with 19 significant digits, so each value is
\* read back as written, and loadtxt squeezes an array of one row or of one
\* column to one dimension
loadtxt(text) ==
    IF text.shape[1] = 1
    THEN Vector(text.shape[2], LAMBDA j : text.v[<<1, j>>])
    ELSE IF text.shape[2] = 1
    THEN Vector(text.shape[1], LAMBDA i : text.v[<<i, 1>>])
    ELSE text

\* np.dot(K, np.exp(samples.T)) for a 2-D K: ValueError unless the columns
\* of K are as many as the columns of samples (the entries of 1-D samples)
DotExp(K, samples) ==
    IF Len(samples.shape) = 2
    THEN IF K.shape[2] # samples.shape[2] THEN Raise("ValueError")
         ELSE Return(Matrix(K.shape[1], samples.shape[1],
                            LAMBDA i, t :
                              SumTo(LAMBDA p : K.v[<<i, p>>] * ExpTenths(samples.v[<<t, p>>]),
                                    K.shape[2])))
    ELSE IF K.shape[2] # samples.shape[1] THEN Raise("ValueError")
         ELSE Return(Vector(K.shape[1],
                            LAMBDA i :
                              SumTo(LAMBDA p : K.v[<<i, p>>] * ExpTenths(samples.v[<<p>>]),
                                    K.shape[2])))

\* the values of a sequence in increasing order
Sorted(vals) == SortSeq(vals, LAMBDA x, y : x < y)

\* the value at the position pos / 10000 of the order statistics sorted,
\* with numpy's linear interpolation between the two nearest ones
Interpolated(sorted, lo, frac, step) ==
    sorted[lo + 1] + (step \div 100) * frac + ((step % 100) * frac) \div 100

OrderStatistic(sorted, lo, frac) ==
    Interpolated(sorted, lo, frac,
                 IF lo + 1 >= Len(sorted) THEN 0 ELSE sorted[lo + 2] - sorted[lo + 1])

\* np.percentile(vals, q) for q in hundredths of a percent
Percentile(vals, q) ==
    OrderStatistic(Sorted(vals), (q * (Len(vals) - 1)) \div 10000,
                   ((q * (Len(vals) - 1)) % 10000) \div 100)

\* 50. - 68.3 / 2. and 50. + 68.3 / 2.
PercentLo == 1585

PercentHi == 8415

\* np.median(vals)
Median(vals) == Percentile(vals, 5000)

\* row i of a 2-D array, as a sequence
Row(m, i) == Array([t \in 1..m.shape[2] |-> m.v[<<i, t>>]])

\* column j of a 2-D array, as a sequence
Column(m, j) == Array([i \in 1..m.shape[1] |-> m.v[<<i, j>>]])

\* np.percentile(m, q, axis=1): one value per row
PercentileRows(m, q) == [i \in 1..m.shape[1] |-> Percentile(Row(m, i), q)]

(***************************************************************************)
(* State.                                                                  *)
(***************************************************************************)
VARIABLES
    radin,      \* MyDeprojVol.radin
    radot,      \* MyDeprojVol.radot
    volres,     \* what the last deproj_vol() call did
    oparg,      \* the arguments the operator builders are called with
    opres,      \* the operator the last builder call returned
    deproj,     \* the fields of the Deproject object
    files,      \* the sample file on disk: None, or the matrix saved to it
    last,       \* what the last method call on the object did
    calls,      \* the number of method calls made on the object
    smprof,     \* prof, the array a caller hands to medsmooth
    smoothed,   \* what medsmooth returned to that caller
    threads,    \* the method calls under way in threads that share the object
    initial     \* the object as it was before the threads started

volvars == <<radin, radot, volres>>

opvars == <<oparg, opres>>

depvars == <<deproj, files, last, calls>>

smvars == <<smprof, smoothed>>

thvars == <<threads, initial>>

vars == <<radin, radot, volres, oparg, opres, deproj, files, last, calls,
          smprof, smoothed, threads, initial>>

\* no call made yet
NoCall == [kind |-> "none"]

\* the variables of a part of the model that a specification leaves aside
VolIdle == radin = <<>> /\ radot = <<>> /\ volres = NoCall

OpIdle == oparg = None /\ opres = NoCall

DepIdle == deproj = None /\ files = None /\ last = NoCall /\ calls = 0

SmIdle == smprof = <<>> /\ smoothed = None

ThIdle == threads = <<>> /\ initial = None

(***************************************************************************)
(* The volume matrix on its own: a MyDeprojVol object is constructed from  *)
(* shell radii and deproj_vol() is called on it.  Every radius that the    *)
(* code divides by (every outer radius, every inner radius but that of the *)
(* innermost shell) is positive.                                           *)
(***************************************************************************)
\* the radius arrays of nShells shells a caller may hand over: whole radius
\* units, and a radius 0.1% above one unit
ShellRadii(nShells) ==
    { s \in [1..nShells -> {r * Unit : r \in 0..MaxRad} \cup {Unit + 1}] :
        \A i \in 2..nShells : s[i] > 0 }

\* MyDeprojVol.__init__
VolInit ==
    /\ \E n \in 1..MaxShells :
         /\ radin \in ShellRadii(n)
         /\ radot \in { s \in ShellRadii(n) : s[1] > 0 }
    /\ volres = NoCall
    /\ OpIdle
    /\ DepIdle
    /\ SmIdle
    /\ ThIdle

\* x.deproj_vol()
DeprojVol ==
    /\ volres' = deproj_vol(radin, radot)
    /\ UNCHANGED <<radin, radot, opvars, depvars, smvars, thvars>>

VolNext == DeprojVol

SpecVol == VolInit /\ [][VolNext]_vars

(***************************************************************************)
(* The operator builders on their own: each is called on a profile's       *)
(* radii with the source region np.where(rad < bkglim) and the grid that   *)
(* list_params (list_params_density for the density operator) returns.     *)
(***************************************************************************)
\* the output radii a caller of Density passes: the bin centres, or a grid
\* of its own that reaches beyond the last bin
OutRadii(prof) == {prof.bins, [i \in 1..(prof.nbin + 1) |-> i * Unit]}

\* the redshift numbers of the model
Redshifts == {1}

OpInit ==
    /\ \E prof \in Profiles, grid \in GridArgs, z \in Redshifts :
         \E bkglim \in BkgLims(prof), rout \in OutRadii(prof) :
           oparg = Some([prof |-> prof, bkglim |-> bkglim, nrc |-> grid[1],
                         nbetas |-> grid[2], z |-> z, rout |-> rout,
                         a |-> prof.bins[1] \div 2, b |-> prof.bins[prof.nbin]])
    /\ opres = NoCall
    /\ VolIdle
    /\ DepIdle
    /\ SmIdle
    /\ ThIdle

\* the source region and the grids of the arguments
OpSourceReg == WhereLess(Val(oparg).prof.bins, Val(oparg).bkglim)

OpPars ==
    list_params(Val(oparg).prof.bins, OpSourceReg, Val(oparg).nrc, Val(oparg).nbetas).value

OpParsDensity ==
    list_params_density(Val(oparg).prof.bins, OpSourceReg, Val(oparg).z,
                        Val(oparg).nrc, Val(oparg).nbetas).value

\* the builder op was called on the radii rad with the grid pars and returned K
Built(op, rad, pars, K) == [kind |-> op, rad |-> rad, pars |-> pars, K |-> K]

BuildLinear ==
    /\ LET arg == Val(oparg)
       IN  opres' = Built("calc_linear_operator", arg.prof.bins, OpPars,
                          calc_linear_operator(arg.prof.bins, OpSourceReg, OpPars,
                                               arg.prof.area, arg.prof.effexp,
                                               PsfOf(arg.prof)))
    /\ UNCHANGED <<oparg, volvars, depvars, smvars, thvars>>

BuildSb ==
    /\ LET arg == Val(oparg)
       IN  opres' = Built("calc_sb_operator", arg.prof.bins, OpPars,
                          calc_sb_operator(arg.prof.bins, OpSourceReg, OpPars))
    /\ UNCHANGED <<oparg, volvars, depvars, smvars, thvars>>

BuildSbPsf ==
    /\ LET arg == Val(oparg)
       IN  opres' = Built("calc_sb_operator_psf", arg.prof.bins, OpPars,
                          calc_sb_operator_psf(arg.prof.bins, OpSourceReg, OpPars,
                                               arg.prof.area, arg.prof.effexp,
                                               PsfOf(arg.prof)))
    /\ UNCHANGED <<oparg, volvars, depvars, smvars, thvars>>

BuildInt ==
    /\ LET arg == Val(oparg)
       IN  opres' = Built("calc_int_operator", <<arg.a, arg.b>>, OpPars,
                          calc_int_operator(arg.a, arg.b, OpPars))
    /\ UNCHANGED <<oparg, volvars, depvars, smvars, thvars>>

\* the call Density(rout) makes: the operator over rout with the source
\* region np.where(rout < bkglim)
BuildDensity ==
    /\ LET arg == Val(oparg)
       IN  opres' = Built("calc_density_operator", arg.rout, OpParsDensity,
                          calc_density_operator(arg.rout, WhereLess(arg.rout, arg.bkglim),
                                                OpParsDensity, arg.z))
    /\ UNCHANGED <<oparg, volvars, depvars, smvars, thvars>>

OpNext == BuildLinear \/ BuildSb \/ BuildSbPsf \/ BuildInt \/ BuildDensity

SpecOp == OpInit /\ [][OpNext]_vars

(***************************************************************************)
(* The Deproject object.  deproj is the record of the fields that          *)
(* __init__ sets and the methods below read or write; the attributes that  *)
(* Multiscale only files for SaveAll (backend, nmcmc, back, samplefile,    *)
(* nrc, nbetas, depth) and the abundance constants are left out.  A field  *)
(* is None or Some(value); an array field holds a sequence.                *)
(*                                                                         *)
(* A method call ends in one of these ways: it returns ("return"), it      *)
(* prints an error message and returns ("error"), it raises an exception   *)
(* that nothing catches ("raise"), or exit() ends the interpreter          *)
(* ("exit"); what it assigned before it ended stays assigned.              *)
(*                                                                         *)
(* A method is written as a chain of operators, each of which is handed    *)
(* what the lines before it computed.                                      *)
(***************************************************************************)
\* Deproject.__init__(z, profile, cf) with the default abundance table 'aspl':
\* nhc = 1/0.8527, mup = 0.5994 and mu_e = 1.1548, in thousandths
NewDeproject(z, profile, cf) ==
    [profile |-> profile, z |-> z, cf |-> cf,
     samples |-> None, dens |-> None, dens_lo |-> None, dens_hi |-> None,
     sb |-> None, sb_lo |-> None, sb_hi |-> None, covmat |-> None,
     bkg |-> None, bkglim |-> None, rout |-> None,
     mg |-> None, mgl |-> None, mgh |-> None, rec_counts |-> None,
     nhc |-> 1173, mup |-> 599, mu_e |-> 1155]

\* the end of a call: the object as the call leaves it, how the call ended,
\* the exception or the message printed, the value returned
Ended(self, kind, note, value) ==
    [self |-> self, kind |-> kind, note |-> note, value |-> value]

Returns(self, value) == Ended(self, "return", "", value)

Raises(self, exc) == Ended(self, "raise", exc, None)

Reports(self, msg) == Ended(self, "error", msg, None)

\* 'NoneType' object has no attribute ...
AttributeError == "AttributeError"

\* '<' not supported between instances of 'float' and 'NoneType', or a
\* missing positional argument
TypeError == "TypeError"

(***************************************************************************)
(* The prior means, lines 259-268 and 373-380.  A brightness is an integer *)
(* number of tenths of the profile's unit, a logarithm an integer number   *)
(* of hundredths.                                                          *)
(***************************************************************************)
\* float64 +inf
Inf == 2^30

RECURSIVE LogRatio(_, _)
\* np.log(num/den) in hundredths for num, den > 0: log 2 = 0.69, and the
\* logarithm is interpolated linearly between two powers of 2
LogRatio(num, den) ==
    IF num < den THEN -LogRatio(den, num)
    ELSE IF num >= 2 * den THEN 69 + LogRatio(num, 2 * den)
    ELSE ((num - den) * 69) \div den

\* np.log(x) for x in tenths: nan for x < 0 (and a RuntimeWarning)
Log(x) ==
    IF IsNaN(x) \/ x < 0 THEN NaN
    ELSE IF x = 0 THEN -Inf
    ELSE IF x = Inf THEN Inf
    ELSE LogRatio(x, 10)

\* x / npt: float64 division, inf for npt = 0 and x > 0
DivideByCount(x, npt) ==
    IF IsNaN(x) THEN NaN
    ELSE IF npt = 0 THEN (IF x = 0 THEN NaN ELSE IF x > 0 THEN Inf ELSE -Inf)
    ELSE x \div npt

\* -10.
DefaultLog == -1000

\* lines 259-262 and 373-376
testval(sb, npt) ==
    IF IsNaN(sb[1]) \/ sb[1] <= 0 THEN DefaultLog
    ELSE Log(DivideByCount(10 * sb[1], npt))

\* lines 263-266 and 377-380
testbkg(back) ==
    IF IsNaN(back) \/ back = 0 THEN DefaultLog ELSE Log(back)

\* np.append(np.repeat(testval,npt),testbkg): the means of the normal priors
\* of the npt source amplitudes and of the background amplitude
norm0(sb, npt, back) ==
    Array([k \in 1..(npt + 1) |-> IF k <= npt THEN testval(sb, npt) ELSE testbkg(back)])

\* np.mean(a) in tenths: nan for an empty a (and a RuntimeWarning)
Mean(a) ==
    IF Len(a) = 0 THEN NaN
    ELSE (10 * SumTo(LAMBDA k : a[k], Len(a))) \div Len(a)

\* np.max(rad+erad)
MaxEdge(rad, erad) ==
    CHOOSE m \in {rad[i] + erad[i] : i \in 1..Len(rad)} :
        \A i \in 1..Len(rad) : rad[i] + erad[i] <= m

(***************************************************************************)
(* Multiscale: Deproject_Multiscale_PyMC3 and Deproject_Multiscale_Stan    *)
(* do the same to the object, the sampler behind them being a library      *)
(* that returns NSamples samples of the npt + 1 log-amplitudes.            *)
(***************************************************************************)
\* lines 322-325, 415-418 and 1042-1045, allsb being what np.dot gave
BrightnessStats(allsb, samples, npt) ==
    IF Raised(allsb) THEN allsb
    ELSE IF Len(samples.shape) = 1 THEN Raise("IndexError")
    ELSE Return([sb    |-> PercentileRows(allsb.value, 5000),
                 sb_lo |-> PercentileRows(allsb.value, PercentLo),
                 sb_hi |-> PercentileRows(allsb.value, PercentHi),
                 bkg   |-> Median(Array([t \in 1..samples.shape[1] |->
                                           ExpTenths(samples.v[<<t, npt + 1>>])]))])

\* lines 320-325, 413-418 and 1040-1045: the brightness model of the samples
BrightnessOf(rad, sourcereg, pars, samples) ==
    BrightnessStats(DotExp(calc_sb_operator(rad, sourcereg, pars), samples),
                    samples, Len(pars))

\* lines 327-331, 420-424 and 1047-1050: the fields that a fit sets
WithModel(self, samples, model) ==
    IF Raised(model) THEN Raises(self, model.exc)
    ELSE Returns([self EXCEPT !.samples = Some(samples),
                              !.sb = Some(model.value.sb),
                              !.sb_lo = Some(model.value.sb_lo),
                              !.sb_hi = Some(model.value.sb_hi),
                              !.bkg = Some(model.value.bkg)],
                 None)

\* what a call of Multiscale did: how it ended, the prior means handed to
\* the sampler, the matrix saved to samplefile
Fitted(end, means, saved) == [end |-> end, norm0 |-> means, saved |-> saved]

\* lines 316-331 and 409-424, samples being what the sampler returned
FitSampled(self, rad, sourcereg, pars, means, samples, samplefile) ==
    Fitted(WithModel(self, samples, BrightnessOf(rad, sourcereg, pars, samples)),
           Some(means),
           IF IsNone(samplefile) THEN None ELSE Some(samples))

\* lines 250-312 and 363-408, pars being what list_params did and seed
\* naming the draw of the sampler
FitWith(self, sb, rad, sourcereg, pars, back, samplefile, seed) ==
    IF Raised(pars) THEN Fitted(Raises(self, pars.exc), None, None)
    ELSE FitSampled(self, rad, sourcereg, pars.value,
                    norm0(sb, Len(pars.value), back),
                    SamplerDraw(seed, Len(pars.value) + 1), samplefile)

\* Deproject_Multiscale_PyMC3 / Deproject_Multiscale_Stan
MultiscaleFit(self, bkglim, back, samplefile, nrc, nbetas, seed) ==
    IF IsNone(self.profile) THEN Fitted(Raises(self, AttributeError), None, None)
    ELSE
    LET prof      == Val(self.profile)
        lim       == IF IsNone(bkglim) THEN MaxEdge(prof.bins, prof.ebins) ELSE Val(bkglim)
        back0     == IF ~IsNone(back) THEN Val(back)
                     ELSE IF IsNone(bkglim) THEN 10 * prof.profile[Len(prof.profile)]
                     ELSE Mean(Take(prof.profile, WhereGreater(prof.bins, lim)))
        sourcereg == WhereLess(prof.bins, lim)
    IN  FitWith([self EXCEPT !.bkglim = Some(lim)], prof.profile, prof.bins, sourcereg,
                list_params(prof.bins, sourcereg, nrc, nbetas), back0, samplefile, seed)

\* the backends Multiscale knows
Backends == {"pymc3", "stan"}

\* Deproject.Multiscale
MultiscaleCall(self, backend, bkglim, back, samplefile, nrc, nbetas, seed) ==
    IF backend \in Backends
    THEN MultiscaleFit([self EXCEPT !.bkglim = bkglim], bkglim, back, samplefile,
                       nrc, nbetas, seed)
    ELSE Fitted(Reports([self EXCEPT !.bkglim = bkglim], "Unknown method"), None, None)

(***************************************************************************)
(* Reload.                                                                 *)
(***************************************************************************)
\* lines 1037-1050, pars being what list_params did
ReloadWith(self, rad, sourcereg, pars, samples) ==
    IF Raised(pars) THEN Raises(self, pars.exc)
    ELSE WithModel(self, samples, BrightnessOf(rad, sourcereg, pars.value, samples))

\* lines 1016-1050, samples being what np.loadtxt returned
ReloadLoaded(self, samples, bkglim) ==
    IF IsNone(self.profile)
    THEN Reports([self EXCEPT !.samples = Some(samples)], "Error: no profile provided")
    ELSE
    LET rad == Val(self.profile).bins
        \* the local variable bkglim after lines 1026-1031
        lim == IF ~IsNone(bkglim) THEN bkglim
               ELSE IF IsNone(self.bkglim) THEN Some(MaxEdge(rad, Val(self.profile).ebins))
               ELSE None
        s2  == [self EXCEPT !.samples = Some(samples),
                            !.bkglim = IF IsNone(lim) THEN self.bkglim ELSE lim]
    IN  IF IsNone(lim) THEN Raises(s2, TypeError)
        ELSE ReloadWith(s2, rad, WhereLess(rad, Val(lim)),
                        list_params(rad, WhereLess(rad, Val(lim)), None, DefaultNBetas),
                        samples)

\* Deproject.Reload(samplefile, bkglim), disk being the content of the file
ReloadCall(self, disk, bkglim) ==
    IF IsNone(disk) THEN Raises(self, "OSError")
    ELSE ReloadLoaded(self, loadtxt(Val(disk)), bkglim)

(***************************************************************************)
(* Density, Mgas and PlotMgas.  A density is the square root of an entry   *)
(* of np.dot(Kdens, np.exp(samples.T)) / cf * transf, the constant factors *)
(* of transf other than 4 (1+z)^2 being part of the unit.                  *)
(***************************************************************************)
\* transf, lines 679, 901 and 960
transf(z) == 4 * (1 + z) * (1 + z)

\* np.sqrt(dot / cf * transf) for one entry of dot
DensityOf(x, cf, z) == ISqrt((x \div cf) * transf(z))

\* np.sqrt(dot / cf * transf), dot being what np.dot gave
RootOfDot(dot, cf, z) ==
    IF Raised(dot) THEN dot
    ELSE IF Len(dot.value.shape) = 1
    THEN Return(Vector(dot.value.shape[1],
                       LAMBDA i : DensityOf(dot.value.v[<<i>>], cf, z)))
    ELSE Return(Matrix(dot.value.shape[1], dot.value.shape[2],
                       LAMBDA i, t : DensityOf(dot.value.v[<<i, t>>], cf, z)))

\* np.sqrt(np.dot(Kdens, np.exp(samples.T)) / cf * transf), lines 687, 906
\* and 970: AttributeError when samples is None
AllDens(Kdens, samples, cf, z) ==
    IF IsNone(samples) THEN Raise(AttributeError)
    ELSE RootOfDot(DotExp(Kdens, Val(samples)), cf, z)

\* n times the deviation of m[i, t] from the mean of row i, n being the
\* number of columns
Deviation(m, i, t) ==
    m.shape[2] * m.v[<<i, t>>] - SumTo(LAMBDA u : m.v[<<i, u>>], m.shape[2])

\* np.cov(m): the covariance of the rows of a 2-D array over its columns
Cov(m) ==
    Matrix(m.shape[1], m.shape[1],
           LAMBDA i, j :
             SumTo(LAMBDA t : Deviation(m, i, t) * Deviation(m, j, t), m.shape[2])
               \div (m.shape[2] * m.shape[2] * Max(1, m.shape[2] - 1)))

\* n times the deviation of a[t] from the mean of the 1-D array a, n being
\* the number of its entries
Deviation1(a, t) == a.shape[1] * a.v[<<t>>] - SumTo(LAMBDA u : a.v[<<u>>], a.shape[1])

\* np.cov(a) of a 1-D array: its variance, a 0-D array
Variance(a) ==
    Scalar(SumTo(LAMBDA t : Deviation1(a, t) * Deviation1(a, t), a.shape[1])
             \div (a.shape[1] * a.shape[1] * Max(1, a.shape[1] - 1)))

\* a Density that would move bkglim to its outermost output radius
DensityStats_MovesBkglim(self, alldens, rout) ==
    IF Raised(alldens) THEN Raises(self, alldens.exc)
    ELSE IF Len(alldens.value.shape) = 1
    THEN Raises([self EXCEPT !.covmat = Some(Variance(alldens.value))], "AxisError")
    ELSE Returns([self EXCEPT !.covmat = Some(Cov(alldens.value)),
                              !.dens = Some(PercentileRows(alldens.value, 5000)),
                              !.dens_lo = Some(PercentileRows(alldens.value, PercentLo)),
                              !.dens_hi = Some(PercentileRows(alldens.value, PercentHi)),
                              !.rout = Some(rout),
                              !.bkglim = Some(rout[Len(rout)])],
                 None)

\* lines 688-696, alldens being what line 687 gave
DensityStats(self, alldens, rout) ==
    IF Raised(alldens) THEN Raises(self, alldens.exc)
    ELSE IF Len(alldens.value.shape) = 1
    THEN Raises([self EXCEPT !.covmat = Some(Variance(alldens.value))], "AxisError")
    ELSE Returns([self EXCEPT !.covmat = Some(Cov(alldens.value)),
                              !.dens = Some(PercentileRows(alldens.value, 5000)),
                              !.dens_lo = Some(PercentileRows(alldens.value, PercentLo)),
                              !.dens_hi = Some(PercentileRows(alldens.value, PercentHi)),
                              !.rout = Some(rout)],
                 None)

\* lines 681-696, pardens being what list_params_density did and rout the
\* output radii
DensityWith(self, rout, pardens) ==
    IF Raised(pardens) THEN Raises(self, pardens.exc)
    ELSE DensityStats(self,
                      AllDens(calc_density_operator(rout, WhereLess(rout, Val(self.bkglim)),
                                                    pardens.value, Val(self.z)),
                              self.samples, Val(self.cf), Val(self.z)),
                      rout)

\* list_params_density(rad, sourcereg, z) over the stored source region
DensityGrid(self) ==
    list_params_density(Val(self.profile).bins,
                        WhereLess(Val(self.profile).bins, Val(self.bkglim)),
                        Val(self.z), None, DefaultNBetas)

\* the output radii: the rout argument, or the bin centres when it is None
OutputRadii(self, rout) == IF IsNone(rout) THEN Val(self.profile).bins ELSE Val(rout)

\* Deproject.Density(rout)
DensityCall(self, rout) ==
    IF IsNone(self.profile) THEN Raises(self, AttributeError)
    ELSE IF IsNone(self.bkglim) THEN Raises(self, TypeError)
    ELSE IF IsNone(self.z) \/ IsNone(self.cf)
    THEN Reports(self, "No redshift and/or conversion factor, nothing to do")
    ELSE DensityWith(self, OutputRadii(self, rout), DensityGrid(self))

\* 4. * np.pi * rkpc ** 2 * 2. * erkpc for one shell, 8 pi being part of the
\* unit and the radii taken in units of 100 steps
ShellVol(rkpc, erkpc) == ((rkpc \div 100) * (rkpc \div 100) * (erkpc \div 100)) \div 100

\* np.cumsum(alldens * nhconv * volmat, axis=0), nhconv being part of the unit
CumulativeMass(alldens, rkpc, erkpc) ==
    Matrix(alldens.shape[1], alldens.shape[2],
           LAMBDA i, t :
             SumTo(LAMBDA k : alldens.v[<<k, t>>] * ShellVol(rkpc[k], erkpc[k]), i))

\* the radii in kpc and their half-widths, lines 948-954 (lines 893-895 for
\* a rout that is None)
HalfWidths(self, rout) ==
    IF IsNone(rout)
    THEN [i \in 1..Len(Val(self.profile).ebins) |->
            Val(self.profile).ebins[i] * kpc_proper_per_arcmin(Val(self.z))]
    ELSE [i \in 1..Len(Val(rout)) |->
            ((Val(rout)[i] - (IF i = 1 THEN 0 ELSE Val(rout)[i - 1])) \div 2)
              * kpc_proper_per_arcmin(Val(self.z))]

\* rout * kpcp
InKpc(self, rout) ==
    [i \in 1..Len(rout) |-> rout[i] * kpc_proper_per_arcmin(Val(self.z))]

\* lines 909-912 and 973-977, alldens being what lines 906 and 970 gave
MassOf(alldens, rkpc, erkpc) ==
    IF Raised(alldens) THEN alldens
    ELSE IF Len(alldens.value.shape) = 1 THEN Raise("IndexError")
    ELSE Return([rkpc |-> rkpc, mgas |-> CumulativeMass(alldens.value, rkpc, erkpc)])

\* lines 903-912 and 967-977, pardens being what list_params_density did
MassWith(self, rout, erkpc, pardens) ==
    IF Raised(pardens) THEN pardens
    ELSE MassOf(AllDens(calc_density_operator(rout, WhereLess(rout, Val(self.bkglim)),
                                              pardens.value, Val(self.z)),
                        self.samples, Val(self.cf), Val(self.z)),
                InKpc(self, rout), erkpc)

\* the part that Mgas and PlotMgas share, lines 892-912 and 947-977: the
\* cumulative gas mass at the radii rout (the bin centres when rout is None)
MassProfile(self, rout) ==
    IF IsNone(self.profile) THEN Raise(AttributeError)
    ELSE IF IsNone(self.bkglim) THEN Raise(TypeError)
    ELSE MassWith(self, OutputRadii(self, rout), HalfWidths(self, rout), DensityGrid(self))

\* y at the radius at, x[i] <= at <= x[i+1], on the line through the points
\* i and i + 1
OnLine(x, y, i, at) ==
    y[i] + ((y[i + 1] - y[i]) * ((at - x[i]) \div 100)) \div ((x[i + 1] - x[i]) \div 100)

\* interp1d(x, y)(at) for an increasing x and an at within [x[0], x[-1]]
Interp(x, y, at) ==
    IF Len(x) = 1 \/ at = x[Len(x)] THEN y[Len(x)]
    ELSE OnLine(x, y, CHOOSE k \in 1..(Len(x) - 1) : x[k] <= at /\ at < x[k + 1], at)

\* interp1d(rkpc, mgas, axis=0)(radius): one value per sample, ValueError
\* for a radius outside [rkpc[0], rkpc[-1]]
InterpColumns(rkpc, mgas, radius) ==
    IF radius < rkpc[1] \/ radius > rkpc[Len(rkpc)] THEN Raise("ValueError")
    ELSE Return(Array([t \in 1..mgas.shape[2] |-> Interp(rkpc, Column(mgas, t), radius)]))

\* the three numbers a method returns: the median and the two percentiles
Summary(vals) ==
    <<Percentile(vals, 5000), Percentile(vals, PercentLo), Percentile(vals, PercentHi)>>

\* line 917 and the return, mgasdist being what f(radius) gave
MgasAt(self, mgasdist) ==
    IF Raised(mgasdist) THEN Raises(self, mgasdist.exc)
    ELSE Returns(self, Some(Summary(mgasdist.value)))

\* lines 915-939, mass being what the lines before gave
MgasFrom(self, mass, radius) ==
    IF Raised(mass) THEN Raises(self, mass.exc)
    ELSE MgasAt(self, InterpColumns(mass.value.rkpc, mass.value.mgas, radius))

\* Deproject.Mgas(radius)
MgasCall(self, radius) ==
    IF IsNone(self.samples) \/ IsNone(self.z) \/ IsNone(self.cf)
    THEN Reports(self, "Error: no gas density profile found")
    ELSE MgasFrom(self, MassProfile(self, None), radius)

\* lines 980-984, mass being what the lines before gave
PlotMgasFrom(self, mass) ==
    IF Raised(mass) THEN Raises(self, mass.exc)
    ELSE Returns([self EXCEPT !.mg = Some(PercentileRows(mass.value.mgas, 5000)),
                              !.mgl = Some(PercentileRows(mass.value.mgas, PercentLo)),
                              !.mgh = Some(PercentileRows(mass.value.mgas, PercentHi))],
                 None)

\* Deproject.PlotMgas(rout)
PlotMgasCall(self, rout) ==
    IF IsNone(self.samples) \/ IsNone(self.z) \/ IsNone(self.cf)
    THEN Reports(self, "Error: no gas density profile found")
    ELSE PlotMgasFrom(self, MassProfile(self, rout))

(***************************************************************************)
(* CountRate, Ncounts and CSB.                                             *)
(***************************************************************************)
\* np.dot(K, np.exp(self.samples.T)) for a self.samples that is not None
DotSamples(K, self) == DotExp(K, Val(self.samples))

\* allint[1, :] - allint[0, :] for a 2-D allint of two rows
RowDifference(allint) ==
    Array([t \in 1..allint.shape[2] |-> allint.v[<<2, t>>] - allint.v[<<1, t>>]])

\* the grid of the default arguments over the stored source region, as
\* CountRate, Ncounts and CSB build it; TypeError when bkglim is None
DefaultGrid(self) ==
    IF IsNone(self.profile) THEN Raise(AttributeError)
    ELSE IF IsNone(self.bkglim) THEN Raise(TypeError)
    ELSE list_params(Val(self.profile).bins,
                     WhereLess(Val(self.profile).bins, Val(self.bkglim)),
                     None, DefaultNBetas)

\* CountRate without lines 801-802: the lower limit as the caller gave it
ClampedLower_AsGiven(a, prof) == a

\* the lower limit that CountRate integrates from, lines 801-802
ClampedLower(a, prof) == IF a < prof.bins[1] \div 2 THEN prof.bins[1] \div 2 ELSE a

\* lines 813-816 and the return, allint being what line 812 gave
CountRateOf(self, allint) ==
    IF Raised(allint) THEN Raises(self, allint.exc)
    ELSE IF Len(allint.value.shape) = 1 THEN Raises(self, "IndexError")
    ELSE Returns(self, Some(Summary(RowDifference(allint.value))))

\* lines 801-833, pars being what list_params did
CountRateWith(self, a, b, pars) ==
    IF Raised(pars) THEN Raises(self, pars.exc)
    ELSE CountRateOf(self,
                     DotSamples(calc_int_operator(ClampedLower(a, Val(self.profile)), b,
                                                  pars.value),
                                self))

\* Deproject.CountRate(a, b)
CountRateCall(self, a, b) ==
    IF IsNone(self.samples) THEN Reports(self, "Error: no MCMC samples found")
    ELSE CountRateWith(self, a, b, DefaultGrid(self))

\* K[:, npars] = 0. on the operator K0
ZeroColumn(K0, npars) ==
    Matrix(K0.shape[1], K0.shape[2],
           LAMBDA i, p : IF p = npars + 1 THEN 0 ELSE K0.v[<<i, p>>])

\* np.sum(allnc, axis=0): one value per sample
ColumnSums(allnc) ==
    Array([t \in 1..allnc.shape[2] |->
             SumTo(LAMBDA i : allnc.v[<<i, t>>], allnc.shape[1])])

\* lines 862-868 and the return, allnc being what line 861 gave
NcountsOf(self, allnc) ==
    IF Raised(allnc) THEN Raises(self, allnc.exc)
    ELSE IF Len(allnc.value.shape) = 1 THEN Raises(self, "AxisError")
    ELSE Returns([self EXCEPT !.rec_counts = Some(PercentileRows(allnc.value, 5000))],
                 Some(Summary(ColumnSums(allnc.value))))

\* lines 845-884, pars being what list_params did
NcountsWith(self, prof, pars) ==
    IF Raised(pars) THEN Raises(self, pars.exc)
    ELSE NcountsOf(self,
                   DotSamples(ZeroColumn(calc_linear_operator(prof.bins,
                                             WhereLess(prof.bins, Val(self.bkglim)),
                                             pars.value, prof.area, prof.effexp,
                                             PsfOf(prof)),
                                         Len(pars.value)),
                              self))

\* Deproject.Ncounts()
NcountsCall(self) ==
    IF IsNone(self.samples) THEN Reports(self, "Error: no MCMC samples found")
    ELSE IF IsNone(self.profile) THEN Raises(self, AttributeError)
    ELSE NcountsWith(self, Val(self.profile), DefaultGrid(self))

\* (x / s) / (y / s) in thousandths, s keeping the product in range
Quotient(x, y, s) ==
    IF y \div s = 0 THEN (IF x > 0 THEN Inf ELSE -Inf)
    ELSE ((x \div s) * 1000) \div (y \div s)

\* float64 x / y in thousandths: inf or nan for y = 0 (and a RuntimeWarning)
Ratio(x, y) ==
    IF y = 0 THEN (IF x = 0 THEN NaN ELSE IF x > 0 THEN Inf ELSE -Inf)
    ELSE Quotient(x, y, Max(1, Max(Abs(x), Abs(y)) \div 1000000))

\* v_in / v_out, sample by sample
Ratios(vin, vout) == Array([t \in 1..Len(vin) |-> Ratio(vin[t], vout[t])])

\* lines 1075-1093, allvin and allvout being what the two np.dot gave
CSBOf(self, allvin, allvout) ==
    IF Raised(allvin) THEN Raises(self, allvin.exc)
    ELSE IF Len(allvin.value.shape) = 1 THEN Raises(self, "IndexError")
    ELSE Returns(self, Some(Summary(Ratios(RowDifference(allvin.value),
                                           RowDifference(allvout.value)))))

\* lines 1064-1093, pars being what list_params did
CSBWith(self, rin, rout, kpcp, pars) ==
    IF Raised(pars) THEN Raises(self, pars.exc)
    ELSE CSBOf(self,
               DotSamples(calc_int_operator(Val(self.profile).bins[1] \div 2, rin \div kpcp,
                                            pars.value),
                          self),
               DotSamples(calc_int_operator(Val(self.profile).bins[1] \div 2, rout \div kpcp,
                                            pars.value),
                          self))

\* Deproject.CSB(rin, rout)
CSBCall(self, rin, rout) ==
    IF IsNone(self.samples) \/ IsNone(self.z)
    THEN Reports(self, "Error: no profile reconstruction found")
    ELSE CSBWith(self, rin, rout, kpc_proper_per_arcmin(Val(self.z)), DefaultGrid(self))

(***************************************************************************)
(* OnionPeeling: OP, EdgeCorr and medsmooth.                               *)
(*                                                                         *)
(* An emission measure is an integer; a ratio (an edge term, a correction) *)
(* an integer number of thousandths; an angle an integer number of         *)
(* milliradians.  The radii of a profile increase outwards, so every       *)
(* argument of arccos and every radicand of EdgeCorr is within [0, 1].     *)
(***************************************************************************)
\* the number of Monte Carlo realisations, nmc
NTrials == 3

\* np.arccos(x) for x in thousandths, 0 <= x <= 1000, as
\* sqrt(1-x) (1.5707 - 0.2121 x + 0.0743 x^2 - 0.0187 x^3)
ArcCos(x) ==
    LET root == ISqrt((1000 - x) * 1000)
        poly == 1571 - (212 * x) \div 1000 + (74 * x * x) \div 1000000
                - (19 * ((x * x) \div 1000) * x) \div 1000000
    IN  (root * poly) \div 1000

\* np.sqrt(1. - x ** 2) in thousandths for x in thousandths
CoRoot(x) == ISqrt(1000000 - x * x)

\* em0.clip(min=1e-10): the floor is the smallest positive emission measure,
\* which is 1 at the resolution of the model
Clip(em) == Max(em, 1)

\* EdgeCorr(nbin, rin_cm, rout_cm, em0), the radii being taken in units of
\* 100 steps
EdgeCorr(nbin, rin_cm, rout_cm, em0) ==
    LET rin   == [i \in 1..nbin |-> rin_cm[i] \div 100]
        rout  == [i \in 1..nbin |-> rout_cm[i] \div 100]
        m0    == rin[nbin]
        m1    == rout[nbin]
        top   == (m0 + m1) * m0 * m1
        xin(i)  == (1000 * rin[i]) \div m1
        xout(i) == (1000 * rout[i]) \div m1
        edge0(i) ==
            IF rin[i] = 0
            THEN ((top * 100) \div (rout[i] * rout[i] * rout[i])) * 10
            ELSE ((top * 100) \div ((rin[i] + rout[i]) * rin[i] * rout[i])) * 10
        edge1(i) ==
            IF rin[i] = 0 THEN 2 * xout(i) + ArcCos(xout(i))
            ELSE (rout[i] * ArcCos(xin(i))) \div rin[i] - ArcCos(xout(i))
        edge2(i) ==
            IF rin[i] = 0 THEN (xout(i) * CoRoot(xout(i))) \div 1000
            ELSE (xout(i) * (CoRoot(xin(i)) - CoRoot(xout(i)))) \div 1000
        \* 2. / np.pi * (edge1 - edge2), and that over rout/rin - 1.
        arc(i) == (2000 * (edge1(i) - edge2(i))) \div 3142
        edget(i) ==
            IF rin[i] = 0 THEN (edge0(i) * (arc(i) - 1000)) \div 1000
            ELSE (edge0(i) * (1000 - (arc(i) * rin[i]) \div (rout[i] - rin[i]))) \div 1000
        surf(i) ==
            (1000 * (rout[i] * rout[i] - rin[i] * rin[i])) \div (m1 * m1 - m0 * m0)
    IN  Array([i \in 1..nbin |->
                 (((edget(i) * surf(i)) \div 1000) * em0[nbin]) \div Clip(em0[i])])

\* np.roll(prof, k)[i] for a 1-based i
Rolled(prof, k, i) == prof[((i - 1 - k) % Len(prof)) + 1]

\* a medsmooth whose second and last-but-one elements would keep the median
\* of the rolled window of 5, wrapped-around value included
medsmooth_Wrapped(prof) ==
    LET nbin == Len(prof)
        xx(i) == <<Rolled(prof, 2, i), Rolled(prof, 1, i), prof[i],
                   Rolled(prof, -1, i), Rolled(prof, -2, i)>>
        sm0  == [i \in 1..nbin |-> Median(xx(i))]
        sm3  == [sm0 EXCEPT ![1] = Median(<<3 * prof[1] - 2 * prof[2], prof[1], prof[2]>>)]
    IN  IF nbin < 2 THEN Raise("IndexError")
        ELSE Return([sm3 EXCEPT ![nbin] =
                        Median(<<3 * prof[nbin] - 2 * prof[nbin - 1],
                                 prof[nbin - 1], prof[nbin]>>)])

\* medsmooth(prof): IndexError at line 487 for a profile of fewer than 2 bins
medsmooth(prof) ==
    LET nbin == Len(prof)
        xx(i) == <<Rolled(prof, 2, i), Rolled(prof, 1, i), prof[i],
                   Rolled(prof, -1, i), Rolled(prof, -2, i)>>
        sm0  == [i \in 1..nbin |-> Median(xx(i))]
        sm1  == [sm0 EXCEPT ![2] = Median(SubSeq(xx(2), 2, 5))]
        sm2  == [sm1 EXCEPT ![nbin - 1] = Median(SubSeq(xx(nbin - 1), 1, 4))]
        sm3  == [sm2 EXCEPT ![1] = Median(<<3 * prof[1] - 2 * prof[2], prof[1], prof[2]>>)]
    IN  IF nbin < 2 THEN Raise("IndexError")
        ELSE Return([sm3 EXCEPT ![nbin] =
                        Median(<<3 * prof[nbin] - 2 * prof[nbin - 1],
                                 prof[nbin - 1], prof[nbin]>>)])

\* np.random.randn(nbin, nmc)[i, t] of the draw named seed: the deviates
\* are -1, 0 or 1 and differ along a row and from draw to draw
randn(seed, i, t) == ((seed + i + 2 * t) % 3) - 1

\* a volume in the unit of the linear system
VolScale == 10000

\* the unknowns are carried in units of 1/SolveScale
SolveScale == 100

RECURSIVE SolveUpper(_, _, _, _)
\* np.linalg.solve(vol, rhs) for an upper-triangular vol (a function on the
\* index pairs) and one right-hand side: x[i], by back-substitution
SolveUpper(vol, rhs, n, i) ==
    LET tail == IF i = n THEN [k \in {} |-> 0] ELSE SolveUpper(vol, rhs, n, i + 1)
        sum  == SumTo(LAMBDA k : IF k <= i THEN 0
                                 ELSE (vol[<<i, k>>] \div VolScale) * tail[k], n)
        xi   == (rhs[i] * SolveScale - sum) \div (vol[<<i, i>>] \div VolScale)
    IN  [k \in i..n |-> IF k = i THEN xi ELSE tail[k]]

\* np.std(vals): the root of the mean squared deviation from the mean
Std(vals) ==
    LET n    == Len(vals)
        mean == SumTo(LAMBDA k : vals[k], n) \div n
    IN  ISqrt(SumTo(LAMBDA k : (vals[k] - mean) * (vals[k] - mean), n) \div n)

\* cosmo.luminosity_distance(z).value: the distance calculator is outside
\* this file; redshift number z stands for a redshift of this distance
luminosity_distance(z) == 10 * z * (z + 1)

\* K2em, the constant factors being part of the unit
K2em(z, cf) == ((luminosity_distance(z) * luminosity_distance(z)) \div ((1 + z) * (1 + z))) \div cf

\* sign(bsm) * sqrt(abs(bsm)) in tenths of the root of the unit of bsm
SignedRoot(x) == IF x < 0 THEN -ISqrt(100 * (-x)) ELSE ISqrt(100 * x)

\* 0.5 / sqrt(abs(bsm)) * ev0 in the unit of SignedRoot: inf or nan for
\* bsm = 0 (and a RuntimeWarning)
RootError(bsm, ev0) ==
    IF SignedRoot(bsm) = 0 THEN (IF ev0 = 0 THEN NaN ELSE Inf)
    ELSE (50 * ev0) \div Abs(SignedRoot(bsm))

\* x - y and x + y for a finite x and a y that may be inf or nan
Minus(x, y) == IF IsNaN(y) THEN NaN ELSE IF y = Inf THEN -Inf ELSE x - y

Plus(x, y) == IF IsNaN(y) THEN NaN ELSE IF y = Inf THEN Inf ELSE x + y

\* np.pi*(routam**2-rinam**2), pi being part of the unit
AnnulusArea(rin, rout) == (rout * rout - rin * rin) \div (Unit * Unit)

\* one realisation of the emission measure, corrected for the edge:
\* (e_em0 * randn + em0) * (1. - corr) for the trial t
Realisation(em0, e_em0, corr, nbin, seed, t) ==
    Array([i \in 1..nbin |->
             ((e_em0[i] * randn(seed, i, t) + em0[i]) * (1000 - corr[i])) \div 1000])

\* np.linalg.solve(vol, emres * (1. - ct)): one solution per trial
AllRes(vol, em0, e_em0, corr, nbin, seed) ==
    Array([t \in 1..NTrials |->
             SolveUpper(vol, Realisation(em0, e_em0, corr, nbin, seed, t), nbin, 1)])

\* allres[i, :]: the solutions of the trials at the bin i
Trials(allres, i) == Array([t \in 1..NTrials |-> allres[t][i]])

\* np.std(allres, axis=1)
Stds(allres, nbin) == Array([i \in 1..nbin |-> Std(Trials(allres, i))])

\* np.median(allres, axis=1)
Medians(allres, nbin) == Array([i \in 1..nbin |-> Median(Trials(allres, i))])

\* the fields that OP sets, lines 551-558
OPFields(self, sb, ev0, dens, edens, nbin) ==
    Returns([self EXCEPT !.sb = Some(sb),
                         !.sb_lo = Some([i \in 1..nbin |-> sb[i] - ev0[i]]),
                         !.sb_hi = Some([i \in 1..nbin |-> sb[i] + ev0[i]]),
                         !.dens = Some(dens),
                         !.dens_lo = Some([i \in 1..nbin |-> Minus(dens[i], edens[i])]),
                         !.dens_hi = Some([i \in 1..nbin |-> Plus(dens[i], edens[i])])],
            None)

\* lines 551-558 for the smoothed emission measure sb and its error ev0
OPDensity(self, sb, ev0, nbin) ==
    OPFields(self, sb, ev0,
             medsmooth(Array([i \in 1..nbin |-> SignedRoot(sb[i])])).value,
             Array([i \in 1..nbin |-> RootError(sb[i], ev0[i])]),
             nbin)

\* lines 549-558, bsm being what medsmooth(v0) did
OPSmoothed(self, bsm, ev0, nbin) ==
    IF Raised(bsm) THEN Raises(self, bsm.exc)
    ELSE OPDensity(self, bsm.value, ev0, nbin)

\* lines 547-558, allres being the solutions of the trials
OPStats(self, allres, nbin) ==
    OPSmoothed(self, medsmooth(Medians(allres, nbin)), Stds(allres, nbin), nbin)

\* lines 544-558: the Monte Carlo deprojection of the emission measure em0
\* with error e_em0 through the upper-triangular vol, and the fields it sets
MonteCarlo(self, nbin, vol, em0, e_em0, corr, seed) ==
    OPStats(self, AllRes(vol, em0, e_em0, corr, nbin, seed), nbin)

\* prof.bins - prof.ebins
InnerEdges(prof) == Array([i \in 1..prof.nbin |-> prof.bins[i] - prof.ebins[i]])

\* prof.bins + prof.ebins
OuterEdges(prof) == Array([i \in 1..prof.nbin |-> prof.bins[i] + prof.ebins[i]])

\* lines 527-558 of the physical branch, x being the volume object after
\* x.deproj_vol(); exit() inside deproj_vol ends the interpreter
OPSolve(self, nbin, x, em0, e_em0, rin_cm, rout_cm, seed) ==
    IF x.kind = "SystemExit" THEN Ended(self, "exit", "SystemExit", None)
    ELSE MonteCarlo(self, nbin,
                    \* np.transpose(x.deproj_vol())
                    Array([ij \in (1..nbin) \X (1..nbin) |-> x.volume2[<<ij[2], ij[1]>>]]),
                    em0, e_em0, EdgeCorr(nbin, rin_cm, rout_cm, em0), seed)

\* counts * K2em * area, area being np.pi * (routam ** 2 - rinam ** 2)
EmissionMeasure(counts, k2em, rinam, routam) ==
    Array([i \in 1..Len(counts) |-> counts[i] * k2em * AnnulusArea(rinam[i], routam[i])])

\* radii * amin2kpc, Mpc / 1e3 being part of the unit
InCm(radii, amin2kpc) == Array([i \in 1..Len(radii) |-> radii[i] * amin2kpc])

\* the physical branch of OP for the edges in cm, lines 527-535
OPPhysicalOn(self, prof, rinam, routam, rin_cm, rout_cm, k2em, seed) ==
    OPSolve(self, prof.nbin, deproj_vol(rin_cm, rout_cm),
            EmissionMeasure(prof.profile, k2em, rinam, routam),
            EmissionMeasure(prof.eprof, k2em, rinam, routam),
            rin_cm, rout_cm, seed)

\* the physical branch of OP, lines 524-535
OPPhysical(self, prof, rinam, routam, amin2kpc, seed) ==
    OPPhysicalOn(self, prof, rinam, routam, InCm(rinam, amin2kpc), InCm(routam, amin2kpc),
                 K2em(Val(self.z), Val(self.cf)), seed)

\* the unitless branch of OP, lines 537-541, x being the volume object
\* after x.deproj_vol(): EdgeCorr is called with three arguments
OPUnitless(self, x) ==
    IF x.kind = "SystemExit" THEN Ended(self, "exit", "SystemExit", None)
    ELSE Raises(self, TypeError)

\* lines 518-558 of OP for a profile that is not None
OPOn(self, prof, rinam, routam, seed) ==
    IF ~IsNone(self.z) /\ ~IsNone(self.cf)
    THEN OPPhysical(self, prof, rinam, routam, kpc_proper_per_arcmin(Val(self.z)), seed)
    ELSE OPUnitless(self, deproj_vol(rinam, routam))

\* OP(deproj, nmc) behind Deproject.OnionPeeling, seed naming the draw of
\* the random deviates
OP(self, seed) ==
    IF IsNone(self.profile) THEN Raises(self, AttributeError)
    ELSE OPOn(self, Val(self.profile), InnerEdges(Val(self.profile)),
              OuterEdges(Val(self.profile)), seed)

(***************************************************************************)
(* The calls on a Deproject object: a script constructs the object and     *)
(* then makes up to MaxCalls method calls on it, in any order and with any *)
(* of the arguments below.                                                 *)
(***************************************************************************)
\* the values of cf a caller passes
ConversionFactors == {2}

\* the bkglim arguments: None, or a radius between two bins that leaves 3
\* bins, or all bins but the last one, to the source
BkgLimArgs == {None, Some(3 * Unit), Some((MaxBins - 1) * Unit)}

\* the (nrc, nbetas) arguments of Multiscale: the defaults, a grid of fewer
\* functions than the default one, a grid of as many or more
FitGridArgs == {<<None, DefaultNBetas>>, <<Some(1), 2>>, <<Some(MaxNrc), 3>>}

\* the (z, cf) arguments of the constructor
PhysicalArgs ==
    {<<None, None>>} \cup
    { <<Some(z), cf>> : z \in Redshifts, cf \in {None} \cup { Some(c) : c \in ConversionFactors } }

\* the back arguments: none, or no background at all
BackArgs == {None, Some(0)}

\* the samplefile arguments of Multiscale
SampleFileArgs == {None, Some("samples.dat")}

\* the rout arguments of Density and PlotMgas: None, or a grid of the
\* caller's that reaches beyond the last bin
RoutArgs == {None, Some([i \in 1..(MaxBins + 1) |-> i * Unit])}

\* the radius arguments of Mgas, in kpc: inside the first bin, between two
\* bin centres (which are at odd multiples of Unit for the redshift of the
\* model), beyond the last bin
RadiusArgs == {Unit \div 2, 4 * Unit, 4 * MaxBins * Unit}

\* the lower limits of CountRate: the centre, and the edge of the first bin
LowerArgs == {0, Unit}

\* the arguments of Multiscale: any of the above with a backend it knows,
\* and a backend it does not know with any bkglim
MultiscaleArgs ==
    { [backend |-> backend, bkglim |-> bkglim, back |-> back,
       samplefile |-> samplefile, nrc |-> grid[1], nbetas |-> grid[2]] :
        backend \in Backends, bkglim \in BkgLimArgs, back \in BackArgs,
        samplefile \in SampleFileArgs, grid \in FitGridArgs }
    \cup
    { [backend |-> "emcee", bkglim |-> bkglim, back |-> None,
       samplefile |-> None, nrc |-> None, nbetas |-> DefaultNBetas] :
        bkglim \in BkgLimArgs }

\* the sample file that an earlier run of the script has left on the disk:
\* that of a fit of the profile with the default grid
StoredSamples(profile) ==
    SamplerDraw(0, Len(list_params(profile.bins,
                                   WhereLess(profile.bins, MaxEdge(profile.bins, profile.ebins)),
                                   None, DefaultNBetas).value) + 1)

\* no call made on the object yet
NoMethod ==
    [op |-> "none", args |-> None, kind |-> "none", note |-> "", value |-> None,
     norm0 |-> None]

\* what the call op(args) did, for last
Outcome(op, args, end, means) ==
    [op |-> op, args |-> args, kind |-> end.kind, note |-> end.note,
     value |-> end.value, norm0 |-> means]

\* the random number generators of the sampler and of numpy are seeded
\* when the script starts, so the draw of a call is told by the number of
\* calls made before it: two calls never get the same draw
NextDraw == calls + 1

Init ==
    /\ \E profile \in {None} \cup { Some(MakeProfile(n, TRUE)) : n \in MinBins..MaxBins },
          zcf \in PhysicalArgs :
         deproj = NewDeproject(zcf[1], profile, zcf[2])
    /\ files \in {None} \cup { Some(StoredSamples(MakeProfile(n, TRUE))) : n \in MinBins..MaxBins }
    /\ last = NoMethod
    /\ calls = 0
    /\ VolIdle
    /\ OpIdle
    /\ SmIdle
    /\ ThIdle

Multiscale ==
    /\ calls < MaxCalls
    /\ \E call \in MultiscaleArgs :
         \E r \in {MultiscaleCall(deproj, call.backend, call.bkglim, call.back,
                                  call.samplefile, call.nrc, call.nbetas, NextDraw)} :
             /\ deproj' = r.end.self
             /\ files' = IF IsNone(r.saved) THEN files ELSE r.saved
             /\ last' = Outcome("Multiscale", call, r.end, r.norm0)
    /\ calls' = calls + 1
    /\ UNCHANGED <<volvars, opvars, smvars, thvars>>

OnionPeeling ==
    /\ calls < MaxCalls
    /\ \E end \in {OP(deproj, NextDraw)} :
         /\ deproj' = end.self
         /\ last' = Outcome("OnionPeeling", None, end, None)
    /\ calls' = calls + 1
    /\ UNCHANGED <<files, volvars, opvars, smvars, thvars>>

Reload ==
    /\ calls < MaxCalls
    /\ \E bkglim \in BkgLimArgs :
         \E end \in {ReloadCall(deproj, files, bkglim)} :
             /\ deproj' = end.self
             /\ last' = Outcome("Reload", [bkglim |-> bkglim], end, None)
    /\ calls' = calls + 1
    /\ UNCHANGED <<files, volvars, opvars, smvars, thvars>>

Density ==
    /\ calls < MaxCalls
    /\ \E rout \in RoutArgs :
         \E end \in {DensityCall(deproj, rout)} :
             /\ deproj' = end.self
             /\ last' = Outcome("Density", [rout |-> rout], end, None)
    /\ calls' = calls + 1
    /\ UNCHANGED <<files, volvars, opvars, smvars, thvars>>

Mgas ==
    /\ calls < MaxCalls
    /\ \E radius \in RadiusArgs :
         \E end \in {MgasCall(deproj, radius)} :
             /\ deproj' = end.self
             /\ last' = Outcome("Mgas", [radius |-> radius], end, None)
    /\ calls' = calls + 1
    /\ UNCHANGED <<files, volvars, opvars, smvars, thvars>>

PlotMgas ==
    /\ calls < MaxCalls
    /\ \E rout \in RoutArgs :
         \E end \in {PlotMgasCall(deproj, rout)} :
             /\ deproj' = end.self
             /\ last' = Outcome("PlotMgas", [rout |-> rout], end, None)
    /\ calls' = calls + 1
    /\ UNCHANGED <<files, volvars, opvars, smvars, thvars>>

CountRate ==
    /\ calls < MaxCalls
    /\ \E a \in LowerArgs :
         \E end \in {CountRateCall(deproj, a, 3 * Unit)} :
             /\ deproj' = end.self
             /\ last' = Outcome("CountRate", [a |-> a, b |-> 3 * Unit], end, None)
    /\ calls' = calls + 1
    /\ UNCHANGED <<files, volvars, opvars, smvars, thvars>>

Ncounts ==
    /\ calls < MaxCalls
    /\ \E end \in {NcountsCall(deproj)} :
         /\ deproj' = end.self
         /\ last' = Outcome("Ncounts", None, end, None)
    /\ calls' = calls + 1
    /\ UNCHANGED <<files, volvars, opvars, smvars, thvars>>

CSB ==
    /\ calls < MaxCalls
    /\ \E end \in {CSBCall(deproj, 2 * Unit, 8 * Unit)} :
         /\ deproj' = end.self
         /\ last' = Outcome("CSB", [rin |-> 2 * Unit, rout |-> 8 * Unit], end, None)
    /\ calls' = calls + 1
    /\ UNCHANGED <<files, volvars, opvars, smvars, thvars>>

Next ==
    \/ Multiscale
    \/ OnionPeeling
    \/ Reload
    \/ Density
    \/ Mgas
    \/ PlotMgas
    \/ CountRate
    \/ Ncounts
    \/ CSB

Spec == Init /\ [][Next]_vars

(***************************************************************************)
(* Claims about the operator builders (specification SpecOp).              *)
(***************************************************************************)
\* the operators built over a radius array, one row per radius
RadiusOperators ==
    {"calc_linear_operator", "calc_sb_operator", "calc_sb_operator_psf",
     "calc_density_operator"}

\* the operators whose background column is area*expo
CountsOperators == {"calc_linear_operator", "calc_sb_operator_psf"}

\* C1: for a non-empty grid of nBasis rows every builder returns a matrix
\* with nBasis + 1 columns whose last column is the background column
\* (area*expo for the counts operators, zero for the others); it has one
\* row per radius for the counts, surface-brightness and density operators
\* and 2 rows for the integral operator.
C1_OperatorShape ==
    (opres.kind # "none" /\ Len(opres.pars) > 0) =>
        LET nBasis == Len(opres.pars)
            nRows  == IF opres.kind = "calc_int_operator" THEN 2 ELSE Len(opres.rad)
            prof   == Val(oparg).prof
        IN  /\ opres.K.shape = <<nRows, nBasis + 1>>
            /\ DOMAIN opres.K.v = (1..nRows) \X (1..(nBasis + 1))
            /\ \A i \in 1..nRows :
                 opres.K.v[<<i, nBasis + 1>>] =
                    IF opres.kind \in CountsOperators
                    THEN prof.area[i] * prof.effexp[i] * Scale * PsfOne
                    ELSE 0

\* C1 witness: a density operator over 6 output radii and the default grid
\* of 6 basis functions has been built, with 7 columns
C1_Witness ==
    /\ opres.kind = "calc_density_operator"
    /\ Len(opres.pars) = 6
    /\ Len(opres.rad) = Val(oparg).prof.nbin + 1
    /\ opres.K.shape = <<Val(oparg).prof.nbin + 1, 7>>

\* C2: in every operator built over a radius array, a row whose radius is
\* not in the source region (radius >= bkglim) is zero in all nBasis source
\* columns.
C2_NoSourceBeyondBkglim ==
    (opres.kind \in RadiusOperators) =>
        \A i \in 1..Len(opres.rad) :
            (opres.rad[i] >= Val(oparg).bkglim) =>
                \A p \in 1..Len(opres.pars) : opres.K.v[<<i, p>>] = 0

\* C2 restricted to the operators that read sourcereg: the counts and
\* surface-brightness operators do keep those rows zero
C2_HoldsForSourceRegionOperators ==
    (opres.kind \in RadiusOperators \ {"calc_density_operator"}) =>
        \A i \in 1..Len(opres.rad) :
            (opres.rad[i] >= Val(oparg).bkglim) =>
                \A p \in 1..Len(opres.pars) : opres.K.v[<<i, p>>] = 0


(***************************************************************************)
(* Claims about the volume matrix (specification SpecVol).                 *)
(***************************************************************************)
\* deproj_vol has been called on the object
VolCalled == volres.kind # "none"

\* the loops of deproj_vol compute a negative entry volmat[ishell,iring]
\* from the object's radii
NegativeVolumeComputed ==
    LET ro == FixedOuter(radin, radot)
    IN  \E iring \in 1..Len(radin) : \E ishell \in (iring + 1)..Len(radin) :
            FLt(ShellVolume(radin, ro, ishell, iring), 0)

\* some shell has its outer radius below its inner radius
SomeShellInverted == \E i \in 1..Len(radin) : radot[i] < radin[i]

\* C5: when deproj_vol computes a negative volume entry it hands a geometry
\* error to its caller: it neither terminates the host process nor returns
\* a matrix.
C5_NegativeVolumeIsReported ==
    (VolCalled /\ NegativeVolumeComputed) => volres.kind \notin {"SystemExit", "return"}

\* what the code does instead: a negative entry makes exit() raise SystemExit
C5_NegativeVolumeExits ==
    (VolCalled /\ NegativeVolumeComputed) <=> volres.kind = "SystemExit"

\* C6: for radii with outer[i] < inner[i] in some shell, deproj_vol returns
\* no volume matrix.
C6_InvertedShellReturnsNoMatrix ==
    (VolCalled /\ SomeShellInverted) => volres.kind # "return"

\* C7: a matrix that deproj_vol returns is nShells x nShells, has no entry
\* that is negative or nan, and is zero above the diagonal.
C7_ReturnedMatrixIsNonNegative ==
    (volres.kind = "return") =>
        LET n == Len(radin)
        IN  /\ volres.shape = <<n, n>>
            /\ DOMAIN volres.volume2 = (1..n) \X (1..n)
            /\ \A i, j \in 1..n :
                 /\ ~IsNaN(volres.volume2[<<i, j>>])
                 /\ volres.volume2[<<i, j>>] >= 0
                 /\ (j > i => volres.volume2[<<i, j>>] = 0)

\* C7 for shells that are well formed (inner radii increasing, the last
\* outer radius not below the last inner one): there the returned matrix
\* is non-negative and zero above the diagonal
C7_HoldsForMonotonicRadii ==
    (/\ volres.kind = "return"
     /\ \A i \in 1..(Len(radin) - 1) : radin[i] <= radin[i + 1]
     /\ radin[Len(radin)] <= radot[Len(radot)]) =>
        \A i, j \in 1..Len(radin) :
            /\ ~IsNaN(volres.volume2[<<i, j>>])
            /\ volres.volume2[<<i, j>>] >= 0
            /\ (j > i => volres.volume2[<<i, j>>] = 0)

(***************************************************************************)
(* Claims about the Deproject object (specification Spec).                 *)
(***************************************************************************)
\* the methods that derive a quantity from the fit
DerivedMethods == {"Density", "Mgas", "CountRate", "Ncounts", "CSB"}

\* the object lacks an input that the method op tests for: the samples, and
\* the redshift and conversion factor where op works in physical units
LacksTestedInput(op) ==
    \/ IsNone(deproj.samples)
    \/ (op \in {"Density", "Mgas"} /\ (IsNone(deproj.z) \/ IsNone(deproj.cf)))
    \/ (op = "CSB" /\ IsNone(deproj.z))

\* the object lacks an input of the method op: one it tests for, or the
\* profile
LacksInput(op) == LacksTestedInput(op) \/ IsNone(deproj.profile)

\* C3: a derived-quantity method called on an object without samples, or
\* without a profile, or (where it needs physical units) without redshift
\* or conversion factor, prints an error and returns: it raises nothing.
\* No derived method assigns samples, profile, z or cf, so the object after
\* the call tells what was absent before it.
C3_DerivedMethodsReportMissingInput ==
    (last.op \in DerivedMethods /\ LacksInput(last.op)) => last.kind = "error"

\* what the code does for C3: a method that lacks an input never returns a
\* result, it reports the error or raises
C3_MissingInputGivesNoResult ==
    (last.op \in DerivedMethods /\ LacksInput(last.op)) => last.kind \in {"error", "raise"}

\* the messages of the configuration errors: missing profile, missing
\* redshift or conversion factor, missing samples
ConfigurationErrors ==
    {"Error: no profile provided",
     "No redshift and/or conversion factor, nothing to do",
     "Error: no MCMC samples found",
     "Error: no gas density profile found",
     "Error: no profile reconstruction found"}

\* the fields of the state that C4 names
OutputFields ==
    {"samples", "sb", "sb_lo", "sb_hi", "bkg", "bkglim", "dens", "dens_lo", "dens_hi", "rout"}

\* C4: a call that ends with a configuration error leaves every field of
\* the state (samples, sb, sb_lo, sb_hi, bkg, bkglim, dens, dens_lo,
\* dens_hi, rout) with the value it had before the call.
C4_ConfigurationErrorLeavesState ==
    [][(calls' = calls + 1 /\ last'.kind = "error" /\ last'.note \in ConfigurationErrors)
         => \A f \in OutputFields : deproj'[f] = deproj[f]]_vars

\* C4 for the methods other than Reload: their configuration errors come
\* before any assignment
C4_HoldsOutsideReload ==
    [][(/\ calls' = calls + 1
        /\ last'.kind = "error"
        /\ last'.note \in ConfigurationErrors
        /\ last'.op # "Reload")
         => deproj' = deproj]_vars

\* the call before was a Multiscale that returned and saved its samples
FitSaved ==
    /\ last.op = "Multiscale"
    /\ last.kind = "return"
    /\ ~IsNone(last.args.samplefile)

\* C8: after a Multiscale that saved its samples, whatever its nrc and
\* nbetas and whatever bkglim the caller gave it, Reload of the file with the
\* same bkglim returns and leaves sb, sb_lo, sb_hi and bkg as Multiscale
\* stored them.
C8_ReloadReproducesFit ==
    [][(/\ FitSaved
        /\ ~IsNone(last.args.bkglim)
        /\ last'.op = "Reload"
        /\ calls' = calls + 1
        /\ last'.args.bkglim = last.args.bkglim)
         => /\ last'.kind = "return"
            /\ deproj'.sb = deproj.sb
            /\ deproj'.sb_lo = deproj.sb_lo
            /\ deproj'.sb_hi = deproj.sb_hi
            /\ deproj'.bkg = deproj.bkg]_vars

\* C8 for a fit with the default grid, of one function at least, and a
\* bkglim the caller gives: there Reload rebuilds the grid of the fit, reads
\* the samples back as a 2-D array and reproduces the profiles
C8_HoldsForDefaultGrid ==
    [][(/\ FitSaved
        /\ last.args.nrc = None
        /\ last.args.nbetas = DefaultNBetas
        /\ ~IsNone(last.args.bkglim)
        /\ Len(Val(last.norm0)) > 1
        /\ last'.op = "Reload"
        /\ calls' = calls + 1
        /\ last'.args.bkglim = last.args.bkglim)
         => /\ last'.kind = "return"
            /\ deproj'.sb = deproj.sb
            /\ deproj'.sb_lo = deproj.sb_lo
            /\ deproj'.sb_hi = deproj.sb_hi
            /\ deproj'.bkg = deproj.bkg]_vars

\* OnionPeeling was called on an object with a profile and without redshift
\* or conversion factor (OP assigns none of the three)
UnitlessPeeling ==
    /\ last.op = "OnionPeeling"
    /\ ~IsNone(deproj.profile)
    /\ (IsNone(deproj.z) \/ IsNone(deproj.cf))

\* C9: OnionPeeling on an object without redshift or conversion factor
\* returns, with sb, sb_lo, sb_hi, dens, dens_lo and dens_hi holding arrays
\* of length nbin.
C9_UnitlessPeelingCompletes ==
    UnitlessPeeling =>
        /\ last.kind = "return"
        /\ \A f \in {"sb", "sb_lo", "sb_hi", "dens", "dens_lo", "dens_hi"} :
             /\ ~IsNone(deproj[f])
             /\ Len(Val(deproj[f])) = Val(deproj.profile).nbin

\* what the code does for C9: the call never returns; EdgeCorr is called
\* without its fourth argument, or exit() inside deproj_vol ends the run
C9_UnitlessPeelingNeverReturns ==
    UnitlessPeeling => last.kind \in {"raise", "exit"}

\* a float64 that is neither nan nor an infinity
IsFinite(v) == ~IsNaN(v) /\ v # Inf /\ v # -Inf

\* C10: the vector of prior means that Multiscale hands to the sampler holds
\* no nan and no infinity.
C10_PriorMeansAreFinite ==
    (last.op = "Multiscale" /\ ~IsNone(last.norm0)) =>
        \A k \in 1..Len(Val(last.norm0)) : IsFinite(Val(last.norm0)[k])

\* C10 for the source amplitudes: the mean of each of them is finite, the
\* default standing in for a first brightness that is nan, zero or negative
C10_SourceMeansAreFinite ==
    (last.op = "Multiscale" /\ ~IsNone(last.norm0)) =>
        \A k \in 1..(Len(Val(last.norm0)) - 1) : IsFinite(Val(last.norm0)[k])

\* how a call ended and what it returned
Result(end) == [kind |-> end.kind, note |-> end.note, value |-> end.value]

\* half the radius of the innermost bin of the object's profile
HalfFirstBin == Val(deproj.profile).bins[1] \div 2

\* the count rate between the radii lower and b, from the integral operator
\* evaluated there on the default grid and the object's samples
RateBetween(lower, b) ==
    CountRateOf(deproj,
                DotSamples(calc_int_operator(lower, b, DefaultGrid(deproj).value), deproj))

\* C11: CountRate(a, b) with a below half the innermost bin radius ends as
\* CountRate(bins[0]/2, b) does and returns the same numbers, and a call
\* that returns has integrated from max(a, bins[0]/2): from a itself when
\* a >= bins[0]/2, never from a radius below bins[0]/2.
C11_LowerLimitIsClamped ==
    (last.op = "CountRate" /\ ~IsNone(deproj.profile)) =>
        /\ (last.args.a < HalfFirstBin =>
              Result(last) = Result(CountRateCall(deproj, HalfFirstBin, last.args.b)))
        /\ (last.kind = "return" =>
              last.value = RateBetween(IF last.args.a < HalfFirstBin THEN HalfFirstBin
                                       ELSE last.args.a,
                                       last.args.b).value)

\* CountRate has returned a rate for a lower limit below half the innermost
\* bin radius, and that rate is not the one from the limit as given
C11_Witness ==
    /\ last.op = "CountRate"
    /\ last.kind = "return"
    /\ last.args.a < HalfFirstBin
    /\ last.value # RateBetween(last.args.a, last.args.b).value

\* the object holds samples, redshift, conversion factor, bkglim and profile
FullyPopulated ==
    /\ ~IsNone(deproj.samples)
    /\ ~IsNone(deproj.z)
    /\ ~IsNone(deproj.cf)
    /\ ~IsNone(deproj.bkglim)
    /\ ~IsNone(deproj.profile)

\* the radii of the bin centres in kpc
CentresInKpc == InKpc(deproj, Val(deproj.profile).bins)

\* the radius is outside the interval that the bin centres span
OutOfRange(radius) ==
    radius < CentresInKpc[1] \/ radius > CentresInKpc[Len(CentresInKpc)]

\* the smallest and the largest entry of a sequence
Smallest(vals) == CHOOSE x \in { vals[k] : k \in 1..Len(vals) } :
                      \A k \in 1..Len(vals) : x <= vals[k]

Largest(vals) == CHOOSE x \in { vals[k] : k \in 1..Len(vals) } :
                     \A k \in 1..Len(vals) : x >= vals[k]

\* the numbers returned lie between the cumulative masses of the samples at
\* the innermost and at the outermost bin centre
WithinComputedMasses(value, mgas) ==
    \A k \in 1..Len(value) :
        /\ value[k] >= Smallest(Row(mgas, 1))
        /\ value[k] <= Largest(Row(mgas, mgas.shape[1]))

\* C12: Mgas(radius) on a fully populated object raises ValueError and
\* returns nothing when the radius is outside the interval of the bin centres
\* in kpc, and otherwise returns masses.
C12_MgasInterpolatesOrRaises ==
    (last.op = "Mgas" /\ FullyPopulated) =>
        IF OutOfRange(last.args.radius)
        THEN Result(last) = [kind |-> "raise", note |-> "ValueError", value |-> None]
        ELSE last.kind = "return" /\ ~IsNone(last.value)

\* C12 for an object whose mass profile can be computed: there Mgas raises
\* ValueError for a radius out of range, and otherwise returns the median
\* and percentiles of the masses interpolated at the radius, which lie within
\* the computed masses
C12_HoldsForComputableMasses ==
    (last.op = "Mgas" /\ FullyPopulated /\ ~Raised(MassProfile(deproj, None))) =>
        IF OutOfRange(last.args.radius)
        THEN Result(last) = [kind |-> "raise", note |-> "ValueError", value |-> None]
        ELSE /\ last.kind = "return"
             /\ WithinComputedMasses(Val(last.value), MassProfile(deproj, None).value.mgas)

\* Mgas has returned masses for a radius between two bin centres
C12_InterpolatedInside ==
    /\ last.op = "Mgas"
    /\ last.kind = "return"
    /\ \E k \in 1..(Len(CentresInKpc) - 1) :
         CentresInKpc[k] < last.args.radius /\ last.args.radius < CentresInKpc[k + 1]

(***************************************************************************)
(* Claims about the parameter grids (specification SpecOp).                *)
(***************************************************************************)
\* the number of core radii of the grid of the arguments: nrc, or by default
\* one per nsh source points
OpNrc ==
    IF IsNone(Val(oparg).nrc) THEN Len(OpSourceReg) \div nsh ELSE Val(Val(oparg).nrc)

\* the slopes np.linspace(0.6, 3., nbetas) of the arguments
OpSlopes == LinSpaceBetas(Val(oparg).nbetas)

\* the core radii in arcmin of the arguments, from the third source radius to
\* half the last one
OpCoreRadii ==
    LET rfit == Take(Val(oparg).prof.bins, OpSourceReg)
    IN  LogSpace(rfit[3], rfit[Len(rfit)] \div 2, OpNrc)

\* the grid has nrc * nbetas rows, and its row number k (from 0) holds the
\* slope number k mod nbetas and scale times the core radius number
\* k div nbetas
SlopeFastest(pars, scale) ==
    /\ Len(pars) = OpNrc * Len(OpSlopes)
    /\ \A k \in 0..(Len(pars) - 1) :
         /\ pars[k + 1].beta = OpSlopes[(k % Len(OpSlopes)) + 1]
         /\ pars[k + 1].rc = scale * OpCoreRadii[(k \div Len(OpSlopes)) + 1]

\* C13: the grid an operator was built over has nrc * nbetas rows with the
\* slope varying fastest and the core radius slowest, for list_params and for
\* list_params_density alike; the two grids of the same arguments have the
\* same slopes row by row and differ by the factor kpc per arcmin on the core
\* radii only.
C13_SlopeVariesFastest ==
    (opres.kind # "none") =>
        /\ SlopeFastest(opres.pars,
                        IF opres.kind = "calc_density_operator"
                        THEN kpc_proper_per_arcmin(Val(oparg).z) ELSE 1)
        /\ Len(OpParsDensity) = Len(OpPars)
        /\ \A k \in 1..Len(OpPars) :
             /\ OpParsDensity[k].beta = OpPars[k].beta
             /\ OpParsDensity[k].rc = kpc_proper_per_arcmin(Val(oparg).z) * OpPars[k].rc

\* C13 witness: an operator was built over a grid of 2 core radii and 3
\* slopes, whose 6 rows hold 3 different slopes and then the next core radius
C13_Witness ==
    /\ opres.kind = "calc_density_operator"
    /\ Val(oparg).nrc = Some(2)
    /\ Val(oparg).nbetas = 3
    /\ Len(opres.pars) = 6
    /\ opres.pars[1].beta # opres.pars[2].beta
    /\ opres.pars[1].rc = opres.pars[3].rc
    /\ opres.pars[1].rc # opres.pars[4].rc

\* the builder was called with the default number of core radii
DefaultCount == opres.kind # "none" /\ IsNone(Val(oparg).nrc)

\* the grid has a row, and every core radius in it is positive
NonEmptyPositive(pars) ==
    /\ Len(pars) > 0
    /\ \A k \in 1..Len(pars) : pars[k].rc > 0

\* C14: with the default number of core radii, one per nsh source points
\* rounded down, the grid an operator is built over is non-empty and all its
\* core radii are positive, whatever the size of the source region.
C14_DefaultGridIsNonEmpty ==
    DefaultCount => NonEmptyPositive(opres.pars)

\* C14 for a source region of nsh points or more: there the default grid is
\* non-empty with positive core radii
C14_HoldsFromFourSourcePoints ==
    (DefaultCount /\ Len(OpSourceReg) >= nsh) => NonEmptyPositive(opres.pars)

\* an operator was built over the default grid of a source region of 3 points
C14_ThreeSourcePoints ==
    DefaultCount /\ Len(OpSourceReg) = 3

(***************************************************************************)
(* Claims about the surface-brightness operator with PSF (specification    *)
(* SpecOp).                                                                *)
(***************************************************************************)
\* calc_sb_operator_psf was called on a profile without PSF matrix, that is
\* with the identity np.eye(nbin)
BuiltWithIdentityPsf ==
    opres.kind = "calc_sb_operator_psf" /\ IsNone(Val(oparg).prof.psfmat)

\* the surface-brightness operator of the same radii, source region and grid
SbOperator == calc_sb_operator(Val(oparg).prof.bins, OpSourceReg, opres.pars)

\* the counts operator of the same arguments
LinearOperator ==
    calc_linear_operator(Val(oparg).prof.bins, OpSourceReg, opres.pars,
                         Val(oparg).prof.area, Val(oparg).prof.effexp,
                         PsfOf(Val(oparg).prof))

\* C15: the operator calc_sb_operator_psf returns has a background column of
\* zeros and carries no area or exposure factor: with the identity PSF it is
\* the operator of calc_sb_operator (an entry 1.0 of the PSF being PsfOne).
C15_PsfOperatorIsBrightness ==
    (opres.kind = "calc_sb_operator_psf") =>
        /\ \A i \in 1..opres.K.shape[1] : opres.K.v[<<i, opres.K.shape[2]>>] = 0
        /\ (BuiltWithIdentityPsf =>
               /\ opres.K.shape = SbOperator.shape
               /\ \A i \in 1..opres.K.shape[1], p \in 1..opres.K.shape[2] :
                    opres.K.v[<<i, p>>] = PsfOne * SbOperator.v[<<i, p>>])

\* what calc_sb_operator_psf returns instead: the counts operator of
\* calc_linear_operator, area and exposure included
C15_PsfOperatorIsCounts ==
    (opres.kind = "calc_sb_operator_psf") => opres.K = LinearOperator

\* calc_sb_operator_psf was called with the identity PSF over a non-empty
\* grid, and its background column is not zero
C15_IdentityPsfBuilt ==
    /\ BuiltWithIdentityPsf
    /\ Len(opres.pars) > 0
    /\ opres.K.v[<<1, opres.K.shape[2]>>] # 0

(***************************************************************************)
(* Claims about what the derived methods write (specification Spec).       *)
(***************************************************************************)
\* the methods that derive a quantity from the samples
DerivedOperations == {"Density", "Mgas", "PlotMgas", "CountRate", "Ncounts", "CSB"}

\* the inputs of the derived methods: the samples, the profile, bkglim, the
\* redshift, the conversion factor and the three abundance constants
InputFields == {"samples", "profile", "bkglim", "z", "cf", "nhc", "mup", "mu_e"}

\* the fields that the method op assigns
OwnFields(op) ==
    CASE op = "Density"  -> {"covmat", "dens", "dens_lo", "dens_hi", "rout"}
      [] op = "PlotMgas" -> {"mg", "mgl", "mgh"}
      [] op = "Ncounts"  -> {"rec_counts"}
      [] OTHER           -> {}

\* C17: on an object that holds samples, a call of Density, Mgas, PlotMgas,
\* CountRate, Ncounts or CSB, however it ends, leaves samples, profile,
\* bkglim, z, cf, nhc, mup and mu_e as they were, and changes no field other
\* than the method's own output fields.
C17_DerivedMethodsKeepInputs ==
    [][(calls' = calls + 1 /\ last'.op \in DerivedOperations /\ ~IsNone(deproj.samples))
         => /\ \A f \in InputFields : deproj'[f] = deproj[f]
            /\ \A f \in (DOMAIN deproj) \ OwnFields(last'.op) : deproj'[f] = deproj[f]]_vars

\* C17 witness: Density has returned on an object with samples and has
\* stored the density at its output radii
C17_Witness ==
    /\ last.op = "Density"
    /\ last.kind = "return"
    /\ ~IsNone(deproj.samples)
    /\ ~IsNone(deproj.dens)
    /\ deproj.rout = Some(OutputRadii(deproj, last.args.rout))

(***************************************************************************)
(* medsmooth on its own: a caller hands it an array and keeps what it      *)
(* returns.  np.roll copies and medsmooth writes to its own arrays only,   *)
(* so the caller's array stays as it is.                                   *)
(***************************************************************************)
\* the width of the median window, line 478
width == 5

\* the longest array handed to medsmooth
MaxSmooth == 6

\* the values of the array
SmoothValues == {0, 4, 10}

SmoothInit ==
    /\ \E n \in 1..MaxSmooth : smprof \in [1..n -> SmoothValues]
    /\ smoothed = NoCall
    /\ VolIdle
    /\ OpIdle
    /\ DepIdle
    /\ ThIdle

\* smoothed = medsmooth(prof)
Smooth ==
    /\ smoothed = NoCall
    /\ smoothed' = medsmooth(smprof)
    /\ UNCHANGED <<smprof, volvars, opvars, depvars, thvars>>

SmoothNext == Smooth

SpecSmooth == SmoothInit /\ [][SmoothNext]_vars

\* the median of the elements from number lo to number hi (from 1) of the
\* array handed to medsmooth
WindowMedian(lo, hi) == Median(SubSeq(smprof, lo, hi))

\* the median of an end element, its neighbour and the value extrapolated
\* through them, 3 * end - 2 * neighbour
EndMedian(end, neighbour) ==
    Median(<<3 * smprof[end] - 2 * smprof[neighbour], smprof[end], smprof[neighbour]>>)

\* C18: for an array of n >= 5 elements medsmooth returns n elements (and
\* leaves the array as it was): element i is the median of the 5 elements
\* around i for 2 <= i <= n-3, the median of the first 4 for i = 1, of the
\* last 4 for i = n-2, and at either end the median of the end element, its
\* neighbour and the value extrapolated through them; no element takes a
\* value from the other end of the array.
C18_MedianOfWindow ==
    (smoothed.kind # "none" /\ Len(smprof) >= width) =>
        /\ smoothed.kind = "return"
        /\ Len(smoothed.value) = Len(smprof)
        /\ \A i \in 3..(Len(smprof) - 2) : smoothed.value[i] = WindowMedian(i - 2, i + 2)
        /\ smoothed.value[2] = WindowMedian(1, 4)
        /\ smoothed.value[Len(smprof) - 1] = WindowMedian(Len(smprof) - 3, Len(smprof))
        /\ smoothed.value[1] = EndMedian(1, 2)
        /\ smoothed.value[Len(smprof)] = EndMedian(Len(smprof), Len(smprof) - 1)

\* C18 witness: medsmooth has returned for an array of 6 elements whose
\* second element would be another if the window took in the last element
C18_Witness ==
    /\ smoothed.kind = "return"
    /\ Len(smprof) = 6
    /\ smoothed.value[2] # Median(<<smprof[6], smprof[1], smprof[2], smprof[3], smprof[4]>>)
    /\ smoothed.value # smprof

(***************************************************************************)
(* Claims about the pre-pass of the volume matrix (specification SpecVol). *)
(***************************************************************************)
\* abs(ri[i+1]-ro[i])/ro[i]*100 in thousandths of a percent, for the shell
\* number i (from 1) of the object's radii
Mismatch(i) == (Abs(radin[i + 1] - radot[i]) * 100000) \div radot[i]

\* no shell's outer radius differs from the next inner radius by more than
\* 0.1%
WithinTolerance == \A i \in 1..(Len(radin) - 1) : Mismatch(i) <= 100

\* the outer radii match the next inner radii exactly
ShellsJoined == \A i \in 1..(Len(radin) - 1) : radot[i] = radin[i + 1]

\* the loops of deproj_vol run on the radii ri, ro
VolumeFrom(ri, ro) == RingLoop(ri, ro, Zeros(Len(ro), Len(ro)), Len(ro))

\* C19: deproj_vol replaces an outer radius by the next inner radius only
\* where the two differ by more than 0.1%, and then warns; when no pair
\* differs by more, the matrix it returns is the one computed from the radii
\* as supplied.  The object's radin and radot are left as they were, so
\* calling deproj_vol again returns the same matrix.
C19_CorrectsOnlyAboveThreshold ==
    VolCalled =>
        /\ volres = deproj_vol(radin, radot)
        /\ ((volres.kind = "return" /\ WithinTolerance) =>
               /\ ~volres.warned
               /\ ~VolumeFrom(radin, radot).exited
               /\ volres.volume2 = VolumeFrom(radin, radot).volmat)

\* what the code does for C19: it warns when the mismatches add up to more
\* than 0.1%, computes every matrix it returns from outer radii replaced by
\* the next inner radii, warning or not, and leaves the object's arrays
\* alone, so that a second call returns the same
C19_AlwaysJoinsShells ==
    VolCalled =>
        /\ volres = deproj_vol(radin, radot)
        /\ (WithinTolerance /\ Len(radin) <= 2 => ~volres.warned)
        /\ (volres.kind = "return" =>
               volres.volume2 = VolumeFrom(radin, FixedOuter(radin, radot)).volmat)
        /\ ((volres.kind = "return" /\ ShellsJoined) =>
               volres.volume2 = VolumeFrom(radin, radot).volmat)

\* deproj_vol returned a matrix without a warning for radii that differ by
\* 0.1% between two shells, and the matrix is not that of the radii supplied
C19_SmallMismatchJoined ==
    /\ volres.kind = "return"
    /\ ~volres.warned
    /\ WithinTolerance
    /\ ~ShellsJoined
    /\ volres.volume2 # VolumeFrom(radin, radot).volmat

(***************************************************************************)
(* Claims about the grid of the derived methods (specification Spec).      *)
(***************************************************************************)
\* the call before was a Multiscale that returned, leaving its samples
FitReturned == last.op = "Multiscale" /\ last.kind = "return"

\* the source region of the fit: the bins below the stored bkglim
FitSourceReg == WhereLess(Val(deproj.profile).bins, Val(deproj.bkglim))

\* the grid of the fit: list_params with the nrc and nbetas given to
\* Multiscale
FitGrid ==
    list_params(Val(deproj.profile).bins, FitSourceReg, last.args.nrc, last.args.nbetas)

\* the same grid in kpc
FitGridDensity ==
    list_params_density(Val(deproj.profile).bins, FitSourceReg, Val(deproj.z),
                        last.args.nrc, last.args.nbetas)

\* the next step is a call of a derived method that finds its inputs and
\* goes on to build its operator
DerivedCall ==
    calls' = calls + 1 /\ last'.op \in DerivedOperations /\ last'.kind # "error"

\* the call of the step raised ValueError, and not because Mgas was asked
\* for a radius outside the bin centres: np.dot found an operator and samples
\* of different column counts
ProductFailed ==
    /\ last'.note = "ValueError"
    /\ ~(last'.op = "Mgas" /\ OutOfRange(last'.args.radius))

\* C20: a derived method called after a Multiscale that returned builds its
\* operator over the grid of the fit, the same (slope, core radius) pairs in
\* the same number, whatever nrc and nbetas the fit was given; so the
\* operator has as many columns as the samples and the product of the two
\* raises no ValueError.
C20_DerivedCallsUseFitGrid ==
    [][(FitReturned /\ DerivedCall) =>
          /\ DefaultGrid(deproj) = FitGrid
          /\ (~IsNone(deproj.z) => DensityGrid(deproj) = FitGridDensity)
          /\ Len(DefaultGrid(deproj).value) + 1 = Val(deproj.samples).shape[2]
          /\ ~ProductFailed]_vars

\* C20 for a fit with the default nrc and nbetas: there the derived methods
\* build the grid of the fit and raise no ValueError
C20_HoldsForDefaultGrid ==
    [][(/\ FitReturned
        /\ IsNone(last.args.nrc)
        /\ last.args.nbetas = DefaultNBetas
        /\ DerivedCall) =>
          /\ DefaultGrid(deproj) = FitGrid
          /\ (~IsNone(deproj.z) => DensityGrid(deproj) = FitGridDensity)
          /\ Len(DefaultGrid(deproj).value) + 1 = Val(deproj.samples).shape[2]
          /\ ~ProductFailed]_vars

\* a derived method was called on samples of a fit with another grid and
\* raised ValueError
C20_GridMismatchRaised ==
    /\ last.op \in DerivedOperations
    /\ last.kind = "raise"
    /\ last.note = "ValueError"
    /\ last.op # "Mgas"
    /\ ~IsNone(deproj.samples)
    /\ ~Raised(DefaultGrid(deproj))
    /\ Len(DefaultGrid(deproj).value) + 1 # Val(deproj.samples).shape[2]

(***************************************************************************)
(* Two threads that call methods on one Deproject object.  The methods     *)
(* take no lock; the interpreter switches threads between two statements,  *)
(* so each assignment self.field = value is a step of its own.  What a     *)
(* method computes before its first assignment it computes from samples,   *)
(* profile, bkglim, z and cf, which no thread assigns, and from its own    *)
(* locals: those lines are one step.                                       *)
(***************************************************************************)
\* the two threads
Threads == {1, 2}

\* the calls a thread makes: Density(rout), PlotMgas(rout), Ncounts()
Jobs ==
    { [op |-> op, rout |-> rout] : op \in {"Density", "PlotMgas"}, rout \in RoutArgs }
    \cup {[op |-> "Ncounts", rout |-> None]}

\* the objects the threads share: fitted by Multiscale with the default grid
FittedObjects ==
    { MultiscaleCall(NewDeproject(Some(z), Some(MakeProfile(MinBins, TRUE)), Some(cf)),
                     "pymc3", bkglim, None, None, None, DefaultNBetas, 1).end.self :
        z \in Redshifts, cf \in ConversionFactors, bkglim \in {None, Some(4 * Unit)} }

\* the fields a method assigns, in the order of its assignments: lines
\* 689-696, 982-984 and 857
AssignOrder(op) ==
    CASE op = "Density"  -> <<"covmat", "dens", "dens_lo", "dens_hi", "rout">>
      [] op = "PlotMgas" -> <<"mg", "mgl", "mgh">>
      [] op = "Ncounts"  -> <<"rec_counts">>

\* the assignments a call makes, end being how the call ends when it runs
\* alone: all of them when it returns, that of covmat when np.median raises
\* after line 689, none when it ends before
Assignments(op, end) ==
    LET order == IF end.kind = "return" THEN AssignOrder(op)
                 ELSE IF op = "Density" /\ end.note = "AxisError" THEN <<"covmat">>
                 ELSE <<>>
    IN  [k \in 1..Len(order) |-> [field |-> order[k], value |-> end.self[order[k]]]]

\* a thread that has computed its values and goes on to assign them
Storing(job, end) ==
    [op |-> job.op, rout |-> job.rout, pc |-> "storing",
     pending |-> Assignments(job.op, end), result |-> Result(end)]

ThreadsInit ==
    /\ deproj \in FittedObjects
    /\ initial = deproj
    /\ threads \in [Threads -> { [op |-> job.op, rout |-> job.rout, pc |-> "ready",
                                  pending |-> <<>>, result |-> None] : job \in Jobs }]
    /\ files = None
    /\ last = NoMethod
    /\ calls = 0
    /\ VolIdle
    /\ OpIdle
    /\ SmIdle

\* Density, lines 671-688 and 690-692: up to the first assignment
EnterDensity(t) ==
    /\ threads[t].pc = "ready"
    /\ threads[t].op = "Density"
    /\ \E end \in {DensityCall(deproj, threads[t].rout)} :
         threads' = [threads EXCEPT ![t] = Storing(threads[t], end)]
    /\ UNCHANGED <<deproj, initial, files, last, calls, volvars, opvars, smvars>>

\* PlotMgas, lines 942-981
EnterPlotMgas(t) ==
    /\ threads[t].pc = "ready"
    /\ threads[t].op = "PlotMgas"
    /\ \E end \in {PlotMgasCall(deproj, threads[t].rout)} :
         threads' = [threads EXCEPT ![t] = Storing(threads[t], end)]
    /\ UNCHANGED <<deproj, initial, files, last, calls, volvars, opvars, smvars>>

\* Ncounts, lines 836-856
EnterNcounts(t) ==
    /\ threads[t].pc = "ready"
    /\ threads[t].op = "Ncounts"
    /\ \E end \in {NcountsCall(deproj)} :
         threads' = [threads EXCEPT ![t] = Storing(threads[t], end)]
    /\ UNCHANGED <<deproj, initial, files, last, calls, volvars, opvars, smvars>>

\* the next assignment self.field = value of the thread
Store(t) ==
    /\ threads[t].pc = "storing"
    /\ threads[t].pending # <<>>
    /\ deproj' = [deproj EXCEPT ![Head(threads[t].pending).field] =
                                   Head(threads[t].pending).value]
    /\ threads' = [threads EXCEPT ![t].pending = Tail(threads[t].pending)]
    /\ UNCHANGED <<initial, files, last, calls, volvars, opvars, smvars>>

\* the call of the thread returns or raises
Leave(t) ==
    /\ threads[t].pc = "storing"
    /\ threads[t].pending = <<>>
    /\ threads' = [threads EXCEPT ![t].pc = "done"]
    /\ UNCHANGED <<deproj, initial, files, last, calls, volvars, opvars, smvars>>

ThreadsNext ==
    \/ \E t \in Threads : EnterDensity(t)
    \/ \E t \in Threads : EnterPlotMgas(t)
    \/ \E t \in Threads : EnterNcounts(t)
    \/ \E t \in Threads : Store(t)
    \/ \E t \in Threads : Leave(t)

SpecThreads == ThreadsInit /\ [][ThreadsNext]_vars

(***************************************************************************)
(* Claims about interleaved calls (specification SpecThreads).             *)
(***************************************************************************)
\* the call of thread t made on the object self, alone
Alone(t, self) ==
    CASE threads[t].op = "Density"  -> DensityCall(self, threads[t].rout)
      [] threads[t].op = "PlotMgas" -> PlotMgasCall(self, threads[t].rout)
      [] threads[t].op = "Ncounts"  -> NcountsCall(self)

\* the object and the two results are those of the call of thread first
\* followed by the call of thread second, from the object as it was before
SerialOutcome(first, second) ==
    /\ threads[first].result = Result(Alone(first, initial))
    /\ threads[second].result = Result(Alone(second, Alone(first, initial).self))
    /\ deproj = Alone(second, Alone(first, initial).self).self

\* both calls have ended
BothDone == \A t \in Threads : threads[t].pc = "done"

\* C16: when two calls of Density, PlotMgas or Ncounts on one fitted object
\* run interleaved, the results of the two calls and the fields of the
\* object once both have ended are those of one of the two serial orders:
\* dens is never left from one call with rout from the other.
C16_InterleavingsAreSerial ==
    BothDone => (SerialOutcome(1, 2) \/ SerialOutcome(2, 1))

\* C16 for two calls of different methods, which assign different fields:
\* their interleavings are serial
C16_HoldsForDifferentMethods ==
    (BothDone /\ threads[1].op # threads[2].op) =>
        (SerialOutcome(1, 2) \/ SerialOutcome(2, 1))

\* two Density calls with different output radii have ended and have left
\* the density of the one with the output radii of the other
C16_DensityOfOneRadiiOfOther ==
    /\ BothDone
    /\ threads[1].op = "Density"
    /\ threads[2].op = "Density"
    /\ threads[1].rout # threads[2].rout
    /\ deproj.rout = Some(OutputRadii(deproj, threads[1].rout))
    /\ Len(Val(deproj.dens)) = Len(OutputRadii(deproj, threads[2].rout))
    /\ Len(Val(deproj.dens)) # Len(Val(deproj.rout))

(***************************************************************************)
(* Claims about Reload without a bkglim argument (specification Spec).     *)
(***************************************************************************)
\* the next step is Reload(samplefile) without bkglim, on an object with a
\* profile and with the sample file on the disk
ReloadWithoutBkglim ==
    /\ calls' = calls + 1
    /\ last'.op = "Reload"
    /\ IsNone(last'.args.bkglim)
    /\ ~IsNone(deproj.profile)
    /\ ~IsNone(files)

\* the step returns with sb, sb_lo, sb_hi and bkg set, and leaves in bkglim
\* the value lim
ReloadCompletesWith(lim) ==
    /\ last'.kind = "return"
    /\ \A f \in {"sb", "sb_lo", "sb_hi", "bkg"} : ~IsNone(deproj'[f])
    /\ deproj'.bkglim = lim

\* C21: Reload(samplefile) without a bkglim argument completes and sets sb,
\* sb_lo, sb_hi and bkg: on an object that holds a bkglim it uses and keeps
\* that one, on an object that holds none it uses and stores
\* max(bins + ebins).
C21_ReloadUsesStoredBkglim ==
    [][ReloadWithoutBkglim =>
          ReloadCompletesWith(IF IsNone(deproj.bkglim)
                              THEN Some(MaxEdge(Val(deproj.profile).bins,
                                                Val(deproj.profile).ebins))
                              ELSE deproj.bkglim)]_vars

\* C21 for an object that holds no bkglim: there Reload without the argument
\* completes and stores max(bins + ebins)
C21_HoldsWithoutStoredBkglim ==
    [][(ReloadWithoutBkglim /\ IsNone(deproj.bkglim)) =>
          ReloadCompletesWith(Some(MaxEdge(Val(deproj.profile).bins,
                                           Val(deproj.profile).ebins)))]_vars

\* Reload without the argument raised TypeError on an object that holds a
\* bkglim, a profile and the samples just loaded
C21_StoredBkglimRaised ==
    /\ last.op = "Reload"
    /\ IsNone(last.args.bkglim)
    /\ last.kind = "raise"
    /\ last.note = TypeError
    /\ ~IsNone(deproj.bkglim)
    /\ ~IsNone(deproj.profile)
    /\ ~IsNone(deproj.samples)

(***************************************************************************)
(* Claims about Multiscale with an unknown backend (specification Spec).   *)
(***************************************************************************)
\* the next step is a Multiscale call that reports an unknown backend, on an
\* object that the call before has fitted
UnknownBackendAfterFit ==
    /\ FitReturned
    /\ calls' = calls + 1
    /\ last'.op = "Multiscale"
    /\ last'.args.backend \notin Backends

\* CountRate and Density answer on the object self as they do on the object
\* before the step
SameAnswers(self) ==
    /\ Result(CountRateCall(self, Unit, 3 * Unit)) = Result(CountRateCall(deproj, Unit, 3 * Unit))
    /\ Result(DensityCall(self, None)) = Result(DensityCall(deproj, None))
    /\ DensityCall(self, None).self.dens = DensityCall(deproj, None).self.dens

\* C22: a Multiscale call with a backend other than 'pymc3' and 'stan' on a
\* fitted object reports the unknown method and leaves samples, sb, sb_lo,
\* sb_hi, bkg and bkglim as they were, so that CountRate and Density give
\* the same results after it as before.
C22_UnknownBackendKeepsState ==
    [][UnknownBackendAfterFit =>
          /\ last'.kind = "error"
          /\ last'.note = "Unknown method"
          /\ \A f \in {"samples", "sb", "sb_lo", "sb_hi", "bkg", "bkglim"} :
               deproj'[f] = deproj[f]
          /\ SameAnswers(deproj')]_vars

\* what the code does for C22: it reports the unknown method and keeps
\* samples, sb, sb_lo, sb_hi and bkg, but bkglim becomes the argument of the
\* call; with the bkglim of the fit put back the answers are the same
C22_KeepsAllButBkglim ==
    [][UnknownBackendAfterFit =>
          /\ last'.kind = "error"
          /\ last'.note = "Unknown method"
          /\ \A f \in {"samples", "sb", "sb_lo", "sb_hi", "bkg"} : deproj'[f] = deproj[f]
          /\ deproj'.bkglim = last'.args.bkglim
          /\ SameAnswers([deproj' EXCEPT !.bkglim = deproj.bkglim])]_vars

\* a Multiscale call with an unknown backend and no bkglim has left a fitted
\* object, with samples and sb, without bkglim
C22_BkglimLost ==
    /\ last.op = "Multiscale"
    /\ last.note = "Unknown method"
    /\ ~IsNone(deproj.samples)
    /\ ~IsNone(deproj.sb)
    /\ IsNone(deproj.bkglim)

(***************************************************************************)
(* Claims about the coherence of the stored outputs (specification Spec).  *)
(***************************************************************************)
\* the fields among fs that are set all have n elements
SameLength(fs, n) == \A f \in fs : ~IsNone(deproj[f]) => Len(Val(deproj[f])) = n

\* the stored density is the one that Density computes at the stored radii
\* from the samples the object holds now
DensityOfCurrentSamples ==
    (~IsNone(deproj.samples) /\ ~IsNone(deproj.z) /\ ~IsNone(deproj.cf)) =>
        DensityCall(deproj, deproj.rout).self.dens = deproj.dens

\* C23: after any sequence of OnionPeeling, Multiscale, Reload, Density and
\* PlotMgas calls, an object whose dens is set has rout set too; dens,
\* dens_lo, dens_hi and rout, and mg, mgl, mgh where set, have the same
\* length; and dens is the density of the samples the object holds, at the
\* stored radii.
C23_StoredOutputsAreCoherent ==
    (~IsNone(deproj.dens)) =>
        /\ ~IsNone(deproj.rout)
        /\ SameLength({"dens", "dens_lo", "dens_hi", "mg", "mgl", "mgh"},
                      Len(Val(deproj.rout)))
        /\ DensityOfCurrentSamples

\* C23 for an object on which Density was the last call to return: there
\* rout is set, dens, dens_lo, dens_hi and rout have the same length, and
\* dens is the density of the current samples
C23_HoldsAfterDensity ==
    (last.op = "Density" /\ last.kind = "return") =>
        /\ ~IsNone(deproj.dens)
        /\ ~IsNone(deproj.rout)
        /\ SameLength({"dens", "dens_lo", "dens_hi"}, Len(Val(deproj.rout)))
        /\ DensityOfCurrentSamples

\* a Multiscale fit has returned on an object that keeps the dens of an
\* earlier onion peeling, next to the sb of the fit and without rout
C23_PeelingDensityBesideFit ==
    /\ last.op = "Multiscale"
    /\ last.kind = "return"
    /\ ~IsNone(deproj.samples)
    /\ ~IsNone(deproj.dens)
    /\ IsNone(deproj.rout)

====
